---- MODULE Spec2Model ----
(***************************************************************************)
(* Request-processing core of the embedded HTTP/1.x server: the per-       *)
(* connection state machine of httpProcess (src/src/host.c, rx part) with  *)
(* its header parser, body ingestion and completion handling.              *)
(*                                                                         *)
(* A byte is a one-character string ("CR" and "LF" name the two line       *)
(* terminator bytes); a buffer or a C string is a sequence of bytes.       *)
(***************************************************************************)
EXTENDS Integers, Sequences, FiniteSets, TLC

(***************************************************************************)
(* Bounds of the model (configuration of the connection under test).       *)
(***************************************************************************)
HeaderSize == 72        \* limits->headerSize
HeaderCount == 3        \* limits->headerCount
UriSize == 4            \* limits->uriSize
ReceiveBodySize == 24   \* limits->receiveBodySize
QMax == 7               \* q->max of the receive queue
MaxWrites == 2          \* writable events modelled per request

MAXINT == 2147483647

(***************************************************************************)
(* Connection states HTTP_STATE_xxx, in their numeric order.               *)
(***************************************************************************)
HTTP_STATE_BEGIN == 1
HTTP_STATE_CONNECTED == 2
HTTP_STATE_FIRST == 3
HTTP_STATE_PARSED == 4
HTTP_STATE_CONTENT == 5
HTTP_STATE_RUNNING == 6
HTTP_STATE_COMPLETE == 7

HTTP_CHUNK_START == 0
HTTP_CHUNK_DATA == 1
HTTP_CHUNK_EOF == 2

HTTP_CODE_BAD_REQUEST == 400
HTTP_CODE_BAD_METHOD == 405
HTTP_CODE_NOT_ACCEPTABLE == 406
HTTP_CODE_REQUEST_TOO_LARGE == 413
HTTP_CODE_REQUEST_URL_TOO_LARGE == 414
HTTP_CODE_RANGE_NOT_SATISFIABLE == 416

(***************************************************************************)
(* String literals of the parser.                                          *)
(***************************************************************************)
SP == <<" ">>
COLON == <<":">>
CRLF == <<"CR", "LF">>
CRLFCRLF == <<"CR", "LF", "CR", "LF">>
sGET == <<"G", "E", "T">>
sPOST == <<"P", "O", "S", "T">>
sPUT == <<"P", "U", "T">>
sDELETE == <<"D", "E", "L", "E", "T", "E">>
sHEAD == <<"H", "E", "A", "D">>
sOPTIONS == <<"O", "P", "T", "I", "O", "N", "S">>
sTRACE == <<"T", "R", "A", "C", "E">>
sHTTP10 == <<"H", "T", "T", "P", "/", "1", ".", "0">>
sHTTP11 == <<"H", "T", "T", "P", "/", "1", ".", "1">>
kContentLength == <<"c", "o", "n", "t", "e", "n", "t", "-", "l", "e", "n", "g", "t", "h">>
kTransferEncoding == <<"t", "r", "a", "n", "s", "f", "e", "r", "-", "e", "n", "c", "o", "d", "i", "n", "g">>
kConnection == <<"c", "o", "n", "n", "e", "c", "t", "i", "o", "n">>
kHost == <<"h", "o", "s", "t">>
vChunked == <<"c", "h", "u", "n", "k", "e", "d">>
vKeepAlive == <<"k", "e", "e", "p", "-", "a", "l", "i", "v", "e">>
vClose == <<"c", "l", "o", "s", "e">>
kKeepAlive == <<"k", "e", "e", "p", "-", "a", "l", "i", "v", "e">>
kRange == <<"r", "a", "n", "g", "e">>
kWwwAuthenticate == <<"w", "w", "w", "-", "a", "u", "t", "h", "e", "n", "t", "i", "c", "a", "t", "e">>
kAuthorization == <<"a", "u", "t", "h", "o", "r", "i", "z", "a", "t", "i", "o", "n">>
sBasic == <<"b", "a", "s", "i", "c">>
\* the directives of a challenge
AuthKey == [algorithm |-> <<"a", "l", "g", "o", "r", "i", "t", "h", "m">>,
            domain |-> <<"d", "o", "m", "a", "i", "n">>,
            nonce |-> <<"n", "o", "n", "c", "e">>,
            opaque |-> <<"o", "p", "a", "q", "u", "e">>,
            qop |-> <<"q", "o", "p">>,
            realm |-> <<"r", "e", "a", "l", "m">>,
            stale |-> <<"s", "t", "a", "l", "e">>]
BadKeyChars == {"%", "<", ">", "/", "\\"}

(***************************************************************************)
(* C library helpers used by the parser.                                   *)
(***************************************************************************)
UpperChars == <<"A", "B", "C", "D", "E", "F", "G", "H", "I", "J", "K", "L", "M", "N", "O", "P", "Q", "R", "S", "T", "U", "V", "W", "X", "Y", "Z">>
LowerChars == <<"a", "b", "c", "d", "e", "f", "g", "h", "i", "j", "k", "l", "m", "n", "o", "p", "q", "r", "s", "t", "u", "v", "w", "x", "y", "z">>
DigitChars == <<"0", "1", "2", "3", "4", "5", "6", "7", "8", "9">>
HexChars == <<"0", "1", "2", "3", "4", "5", "6", "7", "8", "9", "a", "b", "c", "d", "e", "f">>

IndexIn(chars, c) ==
    IF \E i \in 1..Len(chars) : chars[i] = c
    THEN CHOOSE i \in 1..Len(chars) : chars[i] = c
    ELSE 0

tolower(c) == IF IndexIn(UpperChars, c) > 0 THEN LowerChars[IndexIn(UpperChars, c)] ELSE c

mprStrLower(s) == [i \in 1..Len(s) |-> tolower(s[i])]

isspace(c) == c \in {" ", "TAB", "CR", "LF"}

isdigit(c) == IndexIn(DigitChars, c) > 0

Min(a, b) == IF a < b THEN a ELSE b

Drop(s, n) == SubSeq(s, n + 1, Len(s))

RECURSIVE SkipSpace(_)
SkipSpace(s) == IF Len(s) > 0 /\ isspace(s[1]) THEN SkipSpace(Tail(s)) ELSE s

RECURSIVE DigitsValue(_, _, _)
DigitsValue(s, chars, acc) ==
    IF Len(s) > 0 /\ IndexIn(chars, tolower(s[1])) > 0
    THEN DigitsValue(Tail(s), chars, acc * Len(chars) + IndexIn(chars, tolower(s[1])) - 1)
    ELSE acc

\* atoi: leading white space, an optional sign, then decimal digits
atoi(s) ==
    LET t == SkipSpace(s) IN
    IF Len(t) > 0 /\ t[1] = "-" THEN 0 - DigitsValue(Tail(t), DigitChars, 0)
    ELSE IF Len(t) > 0 /\ t[1] = "+" THEN DigitsValue(Tail(t), DigitChars, 0)
    ELSE DigitsValue(t, DigitChars, 0)

\* mprAtoi(str, 16)
mprAtoiHex(s) == DigitsValue(SkipSpace(s), HexChars, 0)

\* mprStrnstr: index of the first occurrence of pat in buf, 0 when absent
mprStrnstr(buf, pat) ==
    LET hits == {i \in 1..(Len(buf) - Len(pat) + 1) : SubSeq(buf, i, i + Len(pat) - 1) = pat} IN
    IF hits = {} THEN 0 ELSE CHOOSE i \in hits : \A j \in hits : i <= j

\* strspn(key, set) > 0
strspnPositive(key, set) == Len(key) > 0 /\ key[1] \in set

(***************************************************************************)
(* Packets, the request context and the connection.                        *)
(*                                                                         *)
(* A packet is its content buffer, its memory parent (the block that owns  *)
(* it) and hdr, true of the packet rx->headerPacket points to.             *)
(***************************************************************************)
NullPacket == [null |-> TRUE, content |-> <<>>, parent |-> "none", hdr |-> FALSE]

\* httpCreatePacket(ctx, size) filled with bytes
MkPacket(ctx, bytes) == [null |-> FALSE, content |-> bytes, parent |-> ctx, hdr |-> FALSE]

\* httpSplitPacket(ctx, orig, offset): the new packet that takes the bytes from offset on
httpSplitPacket(ctx, orig, offset) == MkPacket(ctx, Drop(orig.content, offset))

\* httpGetPacketLength / mprGetBufLength; the callers test the pointer first
PacketLength(p) == Len(p.content)

\* a null char pointer; the strings themselves never hold the byte NUL
Null == <<"NUL">>

NoRx == [exists |-> FALSE, method |-> <<>>, flags |-> {}, uri |-> <<>>, length |-> -1,
         remainingContent |-> 0, receivedContent |-> 0, chunkState |-> HTTP_CHUNK_START,
         eof |-> FALSE, needInputPipeline |-> FALSE, headers |-> <<>>, hostName |-> <<>>,
         connection |-> <<>>, contentLength |-> <<>>, ranges |-> <<>>,
         authAlgorithm |-> Null, authStale |-> Null, authType |-> Null, authDetails |-> Null,
         ifMatch |-> FALSE, ifModified |-> FALSE, since |-> 0, etags |-> <<>>]

\* httpCreateRx for a server connection
httpCreateRx == [NoRx EXCEPT !.exists = TRUE, !.ifMatch = TRUE, !.ifModified = TRUE]

\* httpError: the request has an error; the status is recorded for the response
httpError(m, code) == [m EXCEPT !.conn.error = TRUE, !.conn.raised = @ \cup {code}]

\* httpProtocolError and httpLimitError raise the error of the request.  The
\* specification reads them two ways: the error is recoverable at the level
\* of the request, or it also latches connError so that the connection is
\* closed after the response.  conn.errorsLatch is the reading in force on the
\* connection; both are explored.
httpProtocolError(m, code) ==
    [httpError(m, code) EXCEPT !.conn.connError = @ \/ m.conn.errorsLatch]

httpLimitError(m, code) ==
    [httpError(m, code) EXCEPT !.conn.connError = @ \/ m.conn.errorsLatch]

httpSetState(m, state) == [m EXCEPT !.conn.state = state]

Ret(m, v) == [m EXCEPT !.ret = v]

(***************************************************************************)
(* getToken: the bytes up to the delimiter string; the buffer start moves  *)
(* past the delimiter, or to the buffer end when the delimiter is absent.  *)
(***************************************************************************)
TokenValue(buf, delim) ==
    LET i == mprStrnstr(buf, delim) IN
    IF i > 0 THEN SubSeq(buf, 1, i - 1) ELSE buf

TokenRest(buf, delim) ==
    LET i == mprStrnstr(buf, delim) IN
    IF i > 0 THEN Drop(buf, i - 1 + Len(delim)) ELSE <<>>

getToken(m, delim) == [m EXCEPT !.conn.input.content = TokenRest(@, delim)]

MethodFlags(method) ==
    IF method = sDELETE THEN {"HTTP_DELETE"}
    ELSE IF method = sGET THEN {"HTTP_GET"}
    ELSE IF method = sPOST THEN {"HTTP_POST"}
    ELSE IF method = sPUT THEN {"HTTP_PUT"}
    ELSE IF method = sHEAD THEN {"HTTP_HEAD"}
    ELSE IF method = sOPTIONS THEN {"HTTP_OPTIONS"}
    ELSE IF method = sTRACE THEN {"HTTP_TRACE"}
    ELSE {}

(***************************************************************************)
(* parseRequestLine: METHOD URL HTTP/1.X                                   *)
(***************************************************************************)
\* the method token: the flags the method sets, "Unknown method"
RequestMethod(m1, method) ==
    LET m2 == [m1 EXCEPT !.rx.needInputPipeline = @ \/ method \in {sPOST, sPUT},
                         !.conn.omitBody = @ \/ method \in {sHEAD, sOPTIONS, sTRACE}]
    IN  IF MethodFlags(method) = {} THEN httpProtocolError(m2, HTTP_CODE_BAD_METHOD) ELSE m2

\* the URI token: "Empty URI", "URI too long"
RequestUri(m4, uri) ==
    IF uri = <<>> THEN httpProtocolError(m4, HTTP_CODE_BAD_REQUEST)
    ELSE IF Len(uri) >= UriSize THEN httpError(m4, HTTP_CODE_REQUEST_URL_TOO_LARGE)
    ELSE m4

\* the protocol token: HTTP/1.0, HTTP/1.1 or "Unsupported HTTP protocol"
RequestProtocol(m6, protocol, methodFlags) ==
    IF protocol = sHTTP10
    THEN [m6 EXCEPT !.conn.keepAliveCount = 0,
                    !.rx.remainingContent = IF methodFlags \cap {"HTTP_POST", "HTTP_PUT"} # {} THEN MAXINT ELSE @,
                    !.rx.needInputPipeline = @ \/ methodFlags \cap {"HTTP_POST", "HTTP_PUT"} # {},
                    !.conn.http10 = TRUE,
                    !.conn.protocol = sHTTP10]
    ELSE IF protocol # sHTTP11 THEN httpProtocolError(m6, HTTP_CODE_NOT_ACCEPTABLE)
    ELSE m6

\* rx->flags, rx->method, httpSetUri and the state FIRST
RequestLineEnd(m7, method, uri) ==
    httpSetState([m7 EXCEPT !.rx.flags = @ \cup MethodFlags(method),
                            !.rx.method = method,
                            !.rx.uri = uri],
                 HTTP_STATE_FIRST)

\* the request line from its protocol token on
RequestLineProtocol(m5, method, uri) ==
    RequestLineEnd(RequestProtocol(getToken(m5, CRLF), TokenValue(m5.conn.input.content, CRLF),
                                   MethodFlags(method)),
                   method, uri)

\* the request line from its URI token on
RequestLineUri(m3, method) ==
    RequestLineProtocol(RequestUri(getToken(m3, SP), TokenValue(m3.conn.input.content, SP)),
                        method, TokenValue(m3.conn.input.content, SP))

parseRequestLine(m0) ==
    RequestLineUri(RequestMethod(getToken(m0, SP), TokenValue(m0.conn.input.content, SP)),
                   TokenValue(m0.conn.input.content, SP))

(***************************************************************************)
(* parseHeaders: one header line per iteration of the loop.                *)
(***************************************************************************)
FirstByte(buf) == IF Len(buf) > 0 THEN buf[1] ELSE "NUL"

HeaderIndex(headers, key) ==
    IF \E i \in 1..Len(headers) : headers[i][1] = key
    THEN CHOOSE i \in 1..Len(headers) : headers[i][1] = key
    ELSE 0

\* mprAddHash, a repeated key folded as "old, new"
AddHeader(headers, key, value) ==
    LET i == HeaderIndex(headers, key) IN
    IF i > 0 THEN [headers EXCEPT ![i] = <<key, headers[i][2] \o <<",", " ">> \o value>>]
    ELSE Append(headers, <<key, value>>)

ParseContentLength(m, value) ==
    IF m.rx.length >= 0 THEN httpProtocolError(m, HTTP_CODE_BAD_REQUEST)
    ELSE LET m1 == [m EXCEPT !.rx.length = atoi(value)] IN
         IF m1.rx.length < 0 THEN httpProtocolError(m1, HTTP_CODE_BAD_REQUEST)
         ELSE IF m1.rx.length >= ReceiveBodySize THEN httpLimitError(m1, HTTP_CODE_REQUEST_TOO_LARGE)
         ELSE [m1 EXCEPT !.rx.contentLength = value,
                         !.rx.remainingContent = m1.rx.length,
                         !.rx.needInputPipeline = TRUE]

ParseConnection(m, value) ==
    LET m1 == [m EXCEPT !.rx.connection = value] IN
    IF mprStrLower(value) = vKeepAlive THEN [m1 EXCEPT !.keepAlive = @ + 1]
    ELSE IF mprStrLower(value) = vClose THEN [m1 EXCEPT !.conn.keepAliveCount = -1]
    ELSE m1

ParseTransferEncoding(m, value) ==
    IF mprStrLower(value) = vChunked
    THEN [m EXCEPT !.rx.flags = @ \cup {"CHUNKED"},
                   !.rx.remainingContent = MAXINT,
                   !.rx.needInputPipeline = TRUE]
    ELSE m

(***************************************************************************)
(* mprStrTok(str, delim, &last): the leading delimiters are skipped, the   *)
(* token runs up to the next delimiter, and last is left after the         *)
(* delimiters that follow it.  A null last and an empty one are both the   *)
(* empty sequence: the callers test value && *value.                       *)
(***************************************************************************)
RECURSIVE SkipDelims(_, _)
SkipDelims(s, delims) ==
    IF Len(s) > 0 /\ s[1] \in delims THEN SkipDelims(Tail(s), delims) ELSE s

\* strpbrk, strchr: the index of the first character of s that is in set, 0 when none
strpbrk(s, set) ==
    IF \E i \in 1..Len(s) : s[i] \in set
    THEN CHOOSE i \in 1..Len(s) : s[i] \in set /\ \A j \in 1..(i - 1) : s[j] \notin set
    ELSE 0

TokenOf(t, delims) == IF strpbrk(t, delims) > 0 THEN SubSeq(t, 1, strpbrk(t, delims) - 1) ELSE t

RestOf(t, delims) ==
    IF strpbrk(t, delims) > 0 THEN SkipDelims(Drop(t, strpbrk(t, delims)), delims) ELSE <<>>

mprStrTokToken(s, delims) == TokenOf(SkipDelims(s, delims), delims)

mprStrTokRest(s, delims) == RestOf(SkipDelims(s, delims), delims)

(***************************************************************************)
(* parseRange: Range: bytes=n1-n2,n3-n4,...                                *)
(***************************************************************************)
\* mprAllocObjZeroed(rx, HttpRange) with its start and end; len when both are set
HttpRange(start, end) ==
    [start |-> start, end |-> end, len |-> IF start >= 0 /\ end >= 0 THEN end - start ELSE 0]

RangeStart(tok) == IF FirstByte(tok) # "-" THEN atoi(tok) ELSE -1

\* mutant: the end is the last byte of the range
RangeEndLastByte(tok) ==
    IF strpbrk(tok, {"-"}) > 0 /\ strpbrk(tok, {"-"}) < Len(tok)
    THEN atoi(Drop(tok, strpbrk(tok, {"-"})))
    ELSE -1

\* the end is one beyond the range
RangeEnd(tok) ==
    IF strpbrk(tok, {"-"}) > 0 /\ strpbrk(tok, {"-"}) < Len(tok)
    THEN atoi(Drop(tok, strpbrk(tok, {"-"}))) + 1
    ELSE -1

\* the loop over the comma separated pieces
RECURSIVE RangeList(_)
RangeList(value) ==
    IF value = <<>> THEN <<>>
    ELSE <<HttpRange(RangeStart(mprStrTokToken(value, {","})),
                     RangeEnd(mprStrTokToken(value, {","})))>>
         \o RangeList(mprStrTokRest(value, {","}))

\* mutant: the end of a range is compared with every start that follows
RangeValidAnyNext(ranges, i) ==
    /\ ~(ranges[i].end # -1 /\ ranges[i].start >= ranges[i].end)
    /\ ~(ranges[i].start < 0 /\ ranges[i].end < 0)
    /\ ~(ranges[i].start < 0 /\ i < Len(ranges))
    /\ i < Len(ranges) => ~(ranges[i].end > ranges[i + 1].start)

\* the body of the validation loop for the range at i
RangeValid(ranges, i) ==
    /\ ~(ranges[i].end # -1 /\ ranges[i].start >= ranges[i].end)
    /\ ~(ranges[i].start < 0 /\ ranges[i].end < 0)
    /\ ~(ranges[i].start < 0 /\ i < Len(ranges))
    /\ i < Len(ranges) => ~(ranges[i + 1].start >= 0 /\ ranges[i].end > ranges[i + 1].start)

ValidRanges(ranges) == \A i \in 1..Len(ranges) : RangeValid(ranges, i)

\* rx->ranges is assigned by the first range of the loop
StoreRanges(m, ranges) == IF ranges # <<>> THEN [m EXCEPT !.rx.ranges = ranges] ELSE m

RangesOfValue(value) == RangeList(mprStrTokRest(value, {"="}))

\* ret is the value parseRange returns
parseRange(m, value) ==
    Ret(StoreRanges(m, RangesOfValue(value)),
        ValidRanges(StoreRanges(m, RangesOfValue(value)).rx.ranges) /\ RangesOfValue(value) # <<>>)

\* the range case of parseHeaders
ParseRangeHeader(m, value) ==
    IF ~parseRange(m, value).ret
    THEN httpError(parseRange(m, value), HTTP_CODE_RANGE_NOT_SATISFIABLE)
    ELSE parseRange(m, value)

(***************************************************************************)
(* parseAuthenticate: key=value or key="value" directives, separated by    *)
(* commas.  The scan is modelled as far as it stays inside the string: a   *)
(* directive without its '=' or a last value without quotes makes the code *)
(* step over the terminating NUL, and the model takes the string to end    *)
(* there.                                                                  *)
(***************************************************************************)
SpaceChars == {" ", "TAB", "CR", "LF"}

\* what follows the first character of t that is in delims
AfterDelim(t, delims) == IF strpbrk(t, delims) > 0 THEN Drop(t, strpbrk(t, delims)) ELSE <<>>

\* the key runs up to white space, ',' or '='
AuthName(k) == TokenOf(k, SpaceChars \cup {",", "="})

\* tok after the key, its terminator and the white space that follows
AuthAfterName(k) == SkipSpace(AfterDelim(k, SpaceChars \cup {",", "="}))

AuthQuoted(tok) == FirstByte(tok) = "\""

AuthValue(tok) == IF AuthQuoted(tok) THEN TokenOf(Tail(tok), {"\""}) ELSE TokenOf(tok, {","})

\* key = tok, moved past the next comma when the value was quoted
AuthNextKey(tok) ==
    IF AuthQuoted(tok) THEN AfterDelim(AfterDelim(Tail(tok), {"\""}), {","})
    ELSE AfterDelim(tok, {","})

\* the back-quoting loop: sp moves in the body and in the for statement
RECURSIVE AuthCopy(_)
AuthCopy(v) ==
    IF v = <<>> THEN <<>>
    ELSE IF v[1] = "\\" THEN (IF Len(v) < 2 THEN <<>> ELSE <<v[2]>> \o AuthCopy(Drop(v, 3)))
    ELSE <<v[1]>> \o AuthCopy(Drop(v, 2))

AuthUnquote(v) == IF strpbrk(v, {"\\"}) > 0 THEN AuthCopy(v) ELSE v

\* the switch on the key
AuthStore(m, key, value) ==
    IF mprStrLower(key) = AuthKey.algorithm THEN [m EXCEPT !.rx.authAlgorithm = value]
    ELSE IF mprStrLower(key) = AuthKey.domain THEN [m EXCEPT !.conn.authDomain = value]
    ELSE IF mprStrLower(key) = AuthKey.nonce THEN [m EXCEPT !.conn.authNonce = value]
    ELSE IF mprStrLower(key) = AuthKey.opaque THEN [m EXCEPT !.conn.authOpaque = value]
    ELSE IF mprStrLower(key) = AuthKey.qop THEN [m EXCEPT !.conn.authQop = value]
    ELSE IF mprStrLower(key) = AuthKey.realm THEN [m EXCEPT !.conn.authRealm = value]
    ELSE IF mprStrLower(key) = AuthKey.stale THEN [m EXCEPT !.rx.authStale = value]
    ELSE m

RECURSIVE AuthLoop(_, _)

\* one directive; k is the key with the leading white space skipped
AuthDirective(m, k) ==
    AuthLoop(AuthStore(m, AuthName(k), AuthUnquote(AuthValue(AuthAfterName(k)))),
             AuthNextKey(AuthAfterName(k)))

AuthLoop(m, key) == IF key = <<>> THEN m ELSE AuthDirective(m, SkipSpace(key))

\* the tests after the loop
AuthValid(m) ==
    IF m.conn.authType = sBasic THEN m.conn.authRealm # Null
    ELSE /\ m.conn.authRealm # Null
         /\ m.conn.authNonce # Null
         /\ m.conn.authQop # Null =>
                /\ m.conn.authDomain # Null
                /\ m.conn.authOpaque # Null
                /\ m.rx.authAlgorithm # Null
                /\ m.rx.authStale # Null

\* ret is the value parseAuthenticate returns
parseAuthenticate(m, authDetails) ==
    Ret(AuthLoop(m, authDetails), AuthValid(AuthLoop(m, authDetails)))

\* the www-authenticate case of parseHeaders: the scheme, then the directives
AuthChallenge(m, value) ==
    parseAuthenticate([m EXCEPT !.conn.authType = mprStrLower(TokenOf(value, SpaceChars))],
                      AfterDelim(value, SpaceChars))

ParseWwwAuthenticate(m, value) ==
    IF ~AuthChallenge(m, value).ret
    THEN httpError(AuthChallenge(m, value), HTTP_CODE_BAD_REQUEST)
    ELSE AuthChallenge(m, value)

\* the authorization case of parseHeaders: rx->authType and rx->authDetails
ParseAuthorization(m, value) ==
    [m EXCEPT !.rx.authType = IF SkipDelims(value, {" ", "TAB"}) = <<>> THEN Null
                              ELSE mprStrTokToken(value, {" ", "TAB"}),
              !.rx.authDetails = IF strpbrk(SkipDelims(value, {" ", "TAB"}), {" ", "TAB"}) = 0 THEN Null
                                 ELSE mprStrTokRest(value, {" ", "TAB"})]

\* Keep-Alive: timeout=N, max=1 closes the connection one request early
ParseKeepAlive(m, value) ==
    IF /\ Len(value) > 2
       /\ value[Len(value)] = "1"
       /\ value[Len(value) - 1] = "="
       /\ tolower(value[Len(value) - 2]) = "x"
    THEN [m EXCEPT !.conn.keepAliveCount = 0]
    ELSE m

(***************************************************************************)
(* The conditional headers.  mprParseTime is a function of the Mpr         *)
(* library: the model reads a date as a decimal count of seconds and       *)
(* refuses every other value.                                              *)
(***************************************************************************)
kIfModifiedSince == <<"i", "f", "-", "m", "o", "d", "i", "f", "i", "e", "d", "-",
                      "s", "i", "n", "c", "e">>
kIfUnmodifiedSince == <<"i", "f", "-", "u", "n", "m", "o", "d", "i", "f", "i", "e", "d", "-",
                        "s", "i", "n", "c", "e">>
kIfMatch == <<"i", "f", "-", "m", "a", "t", "c", "h">>
kIfNoneMatch == <<"i", "f", "-", "n", "o", "n", "e", "-", "m", "a", "t", "c", "h">>
kIfRange == <<"i", "f", "-", "r", "a", "n", "g", "e">>

\* key[3] == 'M', on the key as the parser holds it
KeyThree(key) == key[4] = "M"

\* if ((cp = strchr(value, ';')) != 0) *cp = '\0'
CutAtSemicolon(value) ==
    IF strpbrk(value, {";"}) > 0 THEN SubSeq(value, 1, strpbrk(value, {";"}) - 1) ELSE value

\* the time parsed, negative when the value is not a date
mprParseTime(value) ==
    IF value # <<>> /\ \A i \in 1..Len(value) : IndexIn(DigitChars, value[i]) > 0
    THEN DigitsValue(value, DigitChars, 0)
    ELSE -1

\* if (newDate) the date and the sense of the test are stored
StoreSince(m, newDate, ifModified) ==
    IF newDate > 0
    THEN [m EXCEPT !.rx.since = newDate, !.rx.ifModified = ifModified,
                   !.rx.flags = @ \cup {"IF_MODIFIED"}]
    ELSE m

ParseSince(m, key, value) ==
    StoreSince(m, mprParseTime(CutAtSemicolon(value)), KeyThree(key))

\* the words of the value, split at blanks and commas, as addMatchEtag gets them
RECURSIVE EtagWords(_)
EtagWords(value) ==
    IF SkipDelims(value, {" ", ","}) = <<>> THEN <<>>
    ELSE <<mprStrTokToken(value, {" ", ","})>> \o EtagWords(mprStrTokRest(value, {" ", ","}))

addMatchEtags(m, value) == [m EXCEPT !.rx.etags = @ \o EtagWords(CutAtSemicolon(value))]

ParseMatch(m, ifMatch, value) ==
    addMatchEtags([m EXCEPT !.rx.ifMatch = ifMatch, !.rx.flags = @ \cup {"IF_MODIFIED"}], value)

\* the switch on the header key
ParseHeaderKey(m, key, value) ==
    IF key = kContentLength THEN ParseContentLength(m, value)
    ELSE IF key = kConnection THEN ParseConnection(m, value)
    ELSE IF key = kHost THEN [m EXCEPT !.rx.hostName = value]
    ELSE IF key \in {kIfModifiedSince, kIfUnmodifiedSince} THEN ParseSince(m, key, value)
    ELSE IF key \in {kIfMatch, kIfNoneMatch} THEN ParseMatch(m, KeyThree(key), value)
    ELSE IF key = kIfRange THEN ParseMatch(m, TRUE, value)
    ELSE IF key = kKeepAlive THEN ParseKeepAlive(m, value)
    ELSE IF key = kRange THEN ParseRangeHeader(m, value)
    ELSE IF key = kAuthorization THEN ParseAuthorization(m, value)
    ELSE IF key = kWwwAuthenticate THEN ParseWwwAuthenticate(m, value)
    ELSE IF key = kTransferEncoding THEN ParseTransferEncoding(m, value)
    ELSE m

RECURSIVE ParseHeaderLoop(_, _)

\* a header line whose key and value were read: "Bad header key value",
\* the header is added to rx->headers and the switch on the key is taken
ParseHeaderValue(m2, key, value, count) ==
    IF strspnPositive(key, BadKeyChars) THEN httpProtocolError(m2, HTTP_CODE_BAD_REQUEST)
    ELSE ParseHeaderLoop(
             ParseHeaderKey([m2 EXCEPT !.rx.headers = AddHeader(@, key, value)], key, value),
             count + 1)

\* a header line whose key was read: "Bad header format", then the value
ParseHeaderLine(m1, key0, count) ==
    IF key0 = <<>> THEN httpProtocolError(m1, HTTP_CODE_BAD_REQUEST)
    ELSE ParseHeaderValue(getToken(m1, CRLF), mprStrLower(key0),
                          SkipSpace(TokenValue(m1.conn.input.content, CRLF)), count)

ParseHeaderLoop(m, count) ==
    IF FirstByte(m.conn.input.content) = "CR" \/ m.conn.error THEN m
    ELSE IF count >= HeaderCount THEN httpLimitError(m, HTTP_CODE_BAD_REQUEST)
    ELSE ParseHeaderLine(getToken(m, COLON), TokenValue(m.conn.input.content, COLON), count)

\* after the loop: HTTP/1.0 without Connection: keep-alive
KeepAliveDefault(m1) ==
    IF m1.conn.protocol = <<>> /\ m1.keepAlive = 0
    THEN [m1 EXCEPT !.conn.keepAliveCount = 0] ELSE m1

\* the blank line that ends the headers stays in the buffer of a chunked body
SkipBlankLine(m2) ==
    IF "CHUNKED" \notin m2.rx.flags /\ Len(m2.conn.input.content) >= 2
    THEN [m2 EXCEPT !.conn.input.content = Drop(@, 2)] ELSE m2

HeadersEof(m3) == IF m3.rx.remainingContent = 0 THEN [m3 EXCEPT !.rx.eof = TRUE] ELSE m3

parseHeaders(m0) ==
    HeadersEof(SkipBlankLine(KeepAliveDefault(
        ParseHeaderLoop([m0 EXCEPT !.conn.input.hdr = TRUE, !.keepAlive = 0], 0))))

(***************************************************************************)
(* parseIncoming: returns (ret) whether the machine can keep going.        *)
(* pkt is the packet argument of the step: "input" when it is conn->input, *)
(* "null" when it is NULL.                                                 *)
(***************************************************************************)
EmptyQueue == [count |-> 0, data |-> <<>>, ends |-> 0, declined |-> 0]

PacketIsNull(m, pkt) == pkt = "null" \/ m.conn.input.null

\* parseHeaders is skipped when the request line latched connError
ParseHeadersOfRequest(m2) == IF ~m2.conn.connError THEN parseHeaders(m2) ELSE m2

\* the packet holds a whole header block
ParseBuffered(m1) ==
    LET end == mprStrnstr(m1.conn.input.content, CRLFCRLF) IN
    IF Len(m1.conn.input.content) = 0 THEN Ret(m1, FALSE)
    ELSE IF end = 0 THEN Ret(m1, FALSE)
    ELSE IF end - 1 >= HeaderSize
         THEN Ret(httpLimitError(m1, HTTP_CODE_REQUEST_TOO_LARGE), FALSE)
    ELSE Ret(httpSetState(ParseHeadersOfRequest(parseRequestLine(m1)), HTTP_STATE_PARSED), TRUE)

\* httpValidateLimits(server, event, conn): the call is counted; the limits on
\* open requests are not reached
HTTP_VALIDATE_OPEN_REQUEST == "open"
HTTP_VALIDATE_CLOSE_REQUEST == "close"

NoValidations == [open |-> 0, close |-> 0]

httpValidateLimits(m, event) == [m EXCEPT !.validated[event] = @ + 1]

\* after the validation: the Rx is created if there is none
ParseValidated(m1) ==
    ParseBuffered(IF ~m1.rx.exists
                  THEN [m1 EXCEPT !.rx = httpCreateRx, !.q = EmptyQueue]
                  ELSE m1)

parseIncoming(m0, pkt) ==
    IF PacketIsNull(m0, pkt) THEN Ret(m0, FALSE)
    ELSE ParseValidated(httpValidateLimits(m0, HTTP_VALIDATE_OPEN_REQUEST))

(***************************************************************************)
(* The handler pipeline, as far as the machine observes it.  A hook call   *)
(* is counted, and its outcome h is what the handler did during the call:  *)
(* "none", "finish" (complete and writeComplete), "blocked" (the handler   *)
(* called httpWriteBlocked), "error" (the handler raised a request error)  *)
(* or "abort" (the handler aborted the pipeline).                          *)
(***************************************************************************)
HandlerOutcomes == {"none", "finish", "blocked", "error", "abort"}

httpWriteBlocked(m) == [m EXCEPT !.conn.canProceed = FALSE, !.conn.writeBlocked = TRUE]

HandlerDid(m, h) ==
    IF h = "finish" THEN [m EXCEPT !.conn.complete = TRUE, !.conn.writeComplete = TRUE]
    ELSE IF h = "blocked" THEN httpWriteBlocked(m)
    ELSE IF h = "error" THEN httpError(m, HTTP_CODE_BAD_REQUEST)
    ELSE IF h = "abort" THEN [httpError(m, HTTP_CODE_BAD_REQUEST) EXCEPT !.conn.abortPipeline = TRUE]
    ELSE m

httpStartPipeline(m, h) == HandlerDid([m EXCEPT !.hooks.start = @ + 1], h)

httpProcessPipeline(m, h) == HandlerDid([m EXCEPT !.hooks.process = @ + 1], h)

httpWritable(m) == [m EXCEPT !.hooks.writable = @ + 1]

\* httpServiceQueues: the handler may take what is queued for it
httpServiceQueues(m, drain) == IF drain THEN [m EXCEPT !.q.count = 0] ELSE m

(***************************************************************************)
(* processParsed                                                           *)
(***************************************************************************)
\* ParsedWritable with the writable event issued when no body is expected
ParsedWritableNoBody(s1) ==
    IF ~s1.conn.error /\ ~s1.conn.writeComplete /\ s1.rx.remainingContent = 0
    THEN httpWritable(s1) ELSE s1

\* after httpStartPipeline: the writable event of a request that expects a body
ParsedWritable(s1) ==
    IF ~s1.conn.error /\ ~s1.conn.writeComplete /\ s1.rx.remainingContent > 0
    THEN httpWritable(s1) ELSE s1

\* the pipeline is started unless it was aborted
ParsedPipeline(m0, h) ==
    IF ~m0.conn.abortPipeline THEN ParsedWritable(httpStartPipeline(m0, h)) ELSE m0

\* processParsed with the state set to the one below PARSED instead of the one above
processParsedBackward(m0, h) == Ret(httpSetState(ParsedPipeline(m0, h), HTTP_STATE_FIRST), TRUE)

processParsed(m0, h) == Ret(httpSetState(ParsedPipeline(m0, h), HTTP_STATE_CONTENT), TRUE)

(***************************************************************************)
(* getChunkPacketSize: the number of bytes of the next unit of a chunked   *)
(* body (a chunk-size line with its leading CRLF, or chunk data), 0 when   *)
(* more data is needed or the chunk specification is bad.                  *)
(***************************************************************************)
MaxChunkLine == 80

ByteAt(buf, i) == IF i >= 1 /\ i <= Len(buf) THEN buf[i] ELSE "NUL"

\* the for loop: index of the first LF at or after index 3, Len + 1 when none
ScanLF(buf) ==
    LET hits == {i \in 3..Len(buf) : buf[i] = "LF"} IN
    IF hits = {} THEN Len(buf) + 1 ELSE CHOOSE i \in hits : \A j \in hits : i <= j

ChunkLineNeed(buf) ==
    LET cp == ScanLF(buf)
        size == mprAtoiHex(Drop(buf, 2))
    IN  IF size = 0 /\ cp + 2 <= Len(buf) /\ buf[cp + 1] = "CR" /\ buf[cp + 2] = "LF"
        THEN cp + 2 ELSE cp

getChunkPacketSize(m, buf) ==
    IF m.rx.chunkState = HTTP_CHUNK_DATA /\ m.rx.remainingContent # 0
    THEN Ret(m, m.rx.remainingContent)
    ELSE IF m.rx.chunkState \in {HTTP_CHUNK_DATA, HTTP_CHUNK_START}
    THEN IF Len(buf) < 3 THEN Ret(m, 0)
         ELSE IF buf[1] # "CR" \/ buf[2] # "LF" THEN Ret(httpProtocolError(m, HTTP_CODE_BAD_REQUEST), 0)
         ELSE LET cp == ScanLF(buf) IN
              IF cp - 1 < 2 \/ ByteAt(buf, cp - 1) # "CR" \/ ByteAt(buf, cp) # "LF"
              THEN IF cp - 1 > MaxChunkLine THEN Ret(httpProtocolError(m, HTTP_CODE_BAD_REQUEST), 0)
                   ELSE Ret(m, 0)
              ELSE Ret([m EXCEPT !.rx.remainingContent = ChunkLineNeed(buf)], ChunkLineNeed(buf))
    ELSE Ret([m EXCEPT !.rx.remainingContent = 0], 0)

(***************************************************************************)
(* The receive queue.  httpSendPacketToNext hands a packet to the first    *)
(* stage of the receive pipeline: the chunk filter when the body is        *)
(* chunked, which takes the chunk-size lines and passes the data on.       *)
(***************************************************************************)
Deliver(m, bytes) == [m EXCEPT !.q.data = @ \o bytes, !.q.count = @ + Len(bytes)]

incomingChunkData(m, bytes) ==
    IF m.rx.chunkState = HTTP_CHUNK_START
    THEN LET size == mprAtoiHex(Drop(bytes, 2)) IN
         [m EXCEPT !.rx.remainingContent = size,
                   !.rx.chunkState = IF size = 0 THEN HTTP_CHUNK_EOF ELSE HTTP_CHUNK_DATA]
    ELSE IF m.rx.chunkState = HTTP_CHUNK_DATA
    THEN LET m1 == Deliver(m, bytes) IN
         IF m1.rx.remainingContent = 0
         THEN [m1 EXCEPT !.rx.chunkState = HTTP_CHUNK_START, !.rx.remainingContent = MAXINT]
         ELSE m1
    ELSE Deliver(m, bytes)

httpSendPacketToNext(m, bytes) ==
    IF "CHUNKED" \in m.rx.flags THEN incomingChunkData(m, bytes) ELSE Deliver(m, bytes)

\* httpSendPacketToNext(q, httpCreateEndPacket(rx))
SendEndPacket(m) == [m EXCEPT !.q.ends = @ + 1]

(***************************************************************************)
(* analyseContent                                                          *)
(***************************************************************************)
\* the nbytes > 0 branch, after the byte counts were updated
\* DispatchBody handing on the whole packet, whatever the body still expects
DispatchBodyNoSplit(m, remaining, nbytes) ==
    LET packet == m.conn.input
        m1 == [m EXCEPT !.conn.input = NullPacket]
    IN  IF m1.q.count + Len(packet.content) > QMax
        THEN Ret([m1 EXCEPT !.q.declined = @ + Len(packet.content)], FALSE)
        ELSE IF m1.conn.error THEN Ret(m1, TRUE)
        ELSE Ret(httpSendPacketToNext(m1, packet.content), TRUE)

DispatchBody(m, remaining, nbytes) ==
    LET packet == m.conn.input
        excess == remaining = 0 /\ Len(packet.content) > nbytes
        sent == IF excess THEN SubSeq(packet.content, 1, nbytes) ELSE packet.content
        m1 == [m EXCEPT !.conn.input =
                  IF excess THEN httpSplitPacket("conn", packet, nbytes) ELSE NullPacket]
    IN  IF m1.q.count + Len(sent) > QMax
        THEN Ret([m1 EXCEPT !.q.declined = @ + Len(sent)], FALSE)
        ELSE IF m1.conn.error THEN Ret(m1, TRUE)
        ELSE Ret(httpSendPacketToNext(m1, sent), TRUE)

\* CountBody counting the received bytes only once the packet was accepted by the queue
CountBodyLate(m1, remaining, nbytes) ==
    LET m3 == DispatchBody([m1 EXCEPT !.rx.remainingContent = @ - nbytes],
                           remaining - nbytes, nbytes)
    IN  IF m3.ret THEN [m3 EXCEPT !.rx.receivedContent = @ + nbytes] ELSE m3

\* the nbytes > 0 branch: the byte counts, the limit on the body, the dispatch
CountBody(m1, remaining, nbytes) ==
    LET m2 == [m1 EXCEPT !.rx.remainingContent = @ - nbytes,
                         !.rx.receivedContent = @ + nbytes]
    IN  IF m2.rx.receivedContent >= ReceiveBodySize
        THEN Ret(httpLimitError(m2, HTTP_CODE_REQUEST_TOO_LARGE), FALSE)
        ELSE DispatchBody(m2, remaining - nbytes, nbytes)

\* nbytes = min(remaining, mprGetBufLength(content))
AnalyseBody(m1, remaining) ==
    IF Min(remaining, Len(m1.conn.input.content)) > 0
    THEN CountBody(m1, remaining, Min(remaining, Len(m1.conn.input.content)))
    ELSE Ret([m1 EXCEPT !.conn.input = NullPacket], TRUE)

\* chunked: remaining is what getChunkPacketSize returned, 0 when more data is needed
AnalyseChunked(m1) == IF m1.ret = 0 THEN Ret(m1, FALSE) ELSE AnalyseBody(m1, m1.ret)

analyseContent(m0) ==
    IF "CHUNKED" \in m0.rx.flags
    THEN AnalyseChunked(getChunkPacketSize(m0, m0.conn.input.content))
    ELSE AnalyseBody(m0, m0.rx.remainingContent)

(***************************************************************************)
(* processContent                                                          *)
(***************************************************************************)
InputLength(m) == IF m.conn.input.null THEN 0 ELSE Len(m.conn.input.content)

\* the body is complete: eof and the end packet
ContentEnd(m1) ==
    IF "CHUNKED" \notin m1.rx.flags \/ m1.rx.chunkState = HTTP_CHUNK_EOF
    THEN SendEndPacket([m1 EXCEPT !.rx.eof = TRUE])
    ELSE m1

\* more body is to come: the value returned after httpServiceQueues
ContentWait(m2) == Ret(m2, m2.conn.connError \/ InputLength(m2) > 0)

\* after analyseContent
ContentAnalysed(m1, drain) ==
    IF ~m1.ret
    THEN Ret(IF m1.conn.connError THEN httpSetState(m1, HTTP_STATE_RUNNING) ELSE m1,
             m1.conn.error)
    ELSE IF m1.rx.remainingContent = 0
    THEN Ret(httpSetState(ContentEnd(m1), HTTP_STATE_RUNNING), TRUE)
    ELSE ContentWait(httpServiceQueues(m1, drain))

processContent(m0, pkt, drain) ==
    IF PacketIsNull(m0, pkt) THEN Ret(m0, FALSE)
    ELSE IF m0.conn.complete \/ m0.conn.connError \/ m0.rx.remainingContent <= 0
    THEN Ret(httpSetState(m0, HTTP_STATE_RUNNING), TRUE)
    ELSE ContentAnalysed(analyseContent(m0), drain)

(***************************************************************************)
(* processRunning.  On the abortPipeline path the function returns its     *)
(* local canProceed without having assigned it: undef is the value the     *)
(* build happens to return.                                                *)
(***************************************************************************)
\* processRunning running the pipeline whether it was aborted or not
processRunningAborted(m0, h, drain, workDone, undef) ==
    LET m1 == httpProcessPipeline(m0, h) IN
    IF m1.conn.complete \/ m1.conn.writeComplete \/ m1.conn.error
    THEN Ret(httpSetState(m1, HTTP_STATE_COMPLETE), TRUE)
    ELSE Ret(httpServiceQueues(httpWritable(m1), drain), workDone)

processRunning(m0, h, drain, workDone, undef) ==
    IF m0.conn.abortPipeline THEN Ret(httpSetState(m0, HTTP_STATE_COMPLETE), undef)
    ELSE LET m1 == httpProcessPipeline(m0, h) IN
         IF m1.conn.complete \/ m1.conn.writeComplete \/ m1.conn.error
         THEN Ret(httpSetState(m1, HTTP_STATE_COMPLETE), TRUE)
         ELSE Ret(httpServiceQueues(httpWritable(m1), drain), workDone)

(***************************************************************************)
(* processCompletion and httpDestroyRx                                     *)
(***************************************************************************)
NoHooks == [start |-> 0, writable |-> 0, process |-> 0, finalize |-> 0]

\* httpPrepServerConn: the connection is made ready for the next request
httpPrepServerConn(m) ==
    [m EXCEPT !.conn.state = HTTP_STATE_BEGIN,
              !.conn.error = FALSE,
              !.conn.abortPipeline = FALSE,
              !.conn.complete = FALSE,
              !.conn.writeComplete = FALSE,
              !.conn.writeBlocked = FALSE,
              !.conn.omitBody = FALSE,
              !.conn.raised = {},
              !.hooks = NoHooks]

httpDestroyRx(m0) ==
    LET in == m0.conn.input
        m1 == IF ~in.null
              THEN [m0 EXCEPT !.conn.input =
                       IF in.parent # "conn" /\ PacketLength(in) > 0
                       THEN httpSplitPacket("conn", in, 0)
                       ELSE NullPacket]
              ELSE m0
        m2 == IF m1.rx.exists
              THEN [httpValidateLimits(m1, HTTP_VALIDATE_CLOSE_REQUEST) EXCEPT !.rx = NoRx]
              ELSE m1
    IN  httpPrepServerConn(m2)

processCompletion(m0) ==
    LET packet == m0.conn.input
        more == ~packet.null /\ ~m0.conn.connError /\ Len(packet.content) > 0
        m1 == IF packet.parent # "conn"
              THEN [m0 EXCEPT !.conn.input =
                       IF more THEN httpSplitPacket("conn", packet, 0) ELSE NullPacket]
              ELSE m0
    IN  Ret(httpDestroyRx(m1), more)

(***************************************************************************)
(* Byte streams a client sends on the connection.                          *)
(***************************************************************************)
ReqLine(method, uri, protocol) == method \o SP \o uri \o SP \o protocol \o CRLF

Hdr(key, value) == key \o <<":", " ">> \o value \o CRLF

Pad(n) == [i \in 1..n |-> "a"]

RECURSIVE Repeat(_, _)
Repeat(s, n) == IF n = 0 THEN <<>> ELSE s \o Repeat(s, n - 1)

HdrHost == Hdr(<<"H", "o", "s", "t">>, <<"x">>)
HdrLen9 == Hdr(<<"C", "o", "n", "t", "e", "n", "t", "-", "L", "e", "n", "g", "t", "h">>, <<"9">>)
HdrLen99 == Hdr(<<"C", "o", "n", "t", "e", "n", "t", "-", "L", "e", "n", "g", "t", "h">>, <<"9", "9">>)
HdrChunked == Hdr(<<"T", "r", "a", "n", "s", "f", "e", "r", "-", "E", "n", "c", "o", "d", "i", "n", "g">>, vChunked)

\* S1: a GET without body
ReqGet == ReqLine(sGET, <<"/">>, sHTTP11) \o HdrHost \o CRLF
\* S2: a POST with an identity body of 9 bytes
PostBody == <<"h", "e", "l", "l", "o", "w", "o", "r", "d">>
ReqPost == ReqLine(sPOST, <<"/", "a">>, sHTTP11) \o HdrLen9 \o CRLF \o PostBody
\* S3: a POST with a chunked body, chunks "hey!" and "?"
ChunkedBody == <<"4">> \o CRLF \o <<"h", "e", "y", "!">> \o CRLF \o <<"1">> \o CRLF \o <<"?">> \o CRLF \o <<"0">> \o CRLF \o CRLF
ReqChunked == ReqLine(sPOST, <<"/">>, sHTTP11) \o HdrChunked \o CRLF \o ChunkedBody
ChunkPayload == <<"h", "e", "y", "!", "?">>
\* requests the parser rejects
ReqBadMethod == ReqLine(<<"F", "O", "O">>, <<"/">>, sHTTP11) \o HdrHost \o CRLF
ReqBadKey == ReqLine(sGET, <<"/">>, sHTTP11) \o Hdr(<<"%", "k">>, <<"v">>) \o CRLF
ReqTooManyHeaders == ReqLine(sGET, <<"/">>, sHTTP11) \o Repeat(Hdr(<<"k">>, <<"v">>), HeaderCount + 1) \o CRLF
ReqHeaderTooBig == ReqLine(sGET, <<"/">>, sHTTP11) \o Hdr(<<"k">>, Pad(HeaderSize)) \o CRLF
\* an HTTP/1.0 POST whose declared length is over the body limit
ReqOldPostTooLong == ReqLine(sPOST, <<"/">>, sHTTP10) \o HdrLen99 \o CRLF \o <<"a">>

\* what a client sends: a sequence of requests, pipelined byte after byte
Wires == {<<ReqGet>>, <<ReqPost>>, <<ReqChunked>>,
          <<ReqGet, ReqPost>>, <<ReqPost, ReqGet>>, <<ReqGet, ReqGet>>,
          <<ReqBadMethod, ReqGet>>, <<ReqBadKey, ReqGet>>, <<ReqTooManyHeaders>>,
          <<ReqHeaderTooBig, ReqGet>>, <<ReqOldPostTooLong>>}

RECURSIVE Concat(_)
Concat(reqs) == IF reqs = <<>> THEN <<>> ELSE Head(reqs) \o Concat(Tail(reqs))

WellFormedRequests == {ReqGet, ReqPost, ReqChunked}

WellFormed(w) == \A i \in 1..Len(w) : w[i] \in WellFormedRequests

(***************************************************************************)
(* The state of one server connection.                                     *)
(***************************************************************************)
VARIABLES
    wire,       \* the requests the client sends on the connection, in order
    stream,     \* bytes the client has sent that the server has not read yet
    conn,       \* HttpConn
    rx,         \* conn->rx
    q,          \* tx->queue[HTTP_QUEUE_RECEIVE]
    pkt,        \* the packet variable of httpProcess: "input" (conn->input) or "null"
    hooks,      \* calls of the handler hooks made for the current request
    done,       \* history: the requests that went through processCompletion
    last        \* the operation that produced the state

vars == <<wire, stream, conn, rx, q, pkt, hooks, done, last>>

(***************************************************************************)
(* The rest of the server: the hosts with their route tables, the          *)
(* endpoints, the connections of the Http service, and the connection a    *)
(* caller of httpWait waits on.                                            *)
(***************************************************************************)
VARIABLES
    hosts,       \* HttpHost objects, by host id
    lists,       \* MprList objects holding routes, by list id
    routes,      \* HttpRoute objects, by route id
    endpoints,   \* HttpEndpoint objects, by endpoint id
    connections, \* http->connections and its lock
    conns,       \* the HttpConn objects accepted on the endpoints, by id
    cursor,      \* the activation of destroyEndpointConnections
    client,      \* the HttpConn that httpWait is called on
    wait,        \* the activation of httpWait
    mpr,         \* the event service: the dispatchers, the listen handler, acceptConn
    op           \* the operation that produced the state, with its result

serverVars == <<hosts, lists, routes, endpoints, connections, conns, cursor, client, wait,
                mpr, op>>

allVars == <<vars, serverVars>>

NoOp == [name |-> "none", on |-> 0, arg |-> 0, ret |-> "0", calls |-> 0]

\* no wait handler on the listen socket
NoHandler == [flags |-> {}, dispatcher |-> 0, presentMask |-> 0]

\* no event
NoEvent == [name |-> "none", proc |-> "none", data |-> 0, mask |-> 0, sock |-> 0,
            handler |-> NoHandler, dispatcher |-> 0]

\* the event service before any dispatcher exists
NoMpr == [dispatchers |-> <<>>, current |-> 0, sleep |-> "none", handler |-> NoHandler,
          pc |-> "idle", event |-> NoEvent, sockets |-> 0, accepts |-> 0]

\* nothing has been created yet
NoServer ==
    /\ hosts = <<>>
    /\ lists = <<>>
    /\ routes = <<>>
    /\ endpoints = <<>>
    /\ connections = [items |-> <<>>, lock |-> FALSE]
    /\ conns = <<>>
    /\ cursor = [active |-> FALSE, endpoint |-> 0, next |-> 0]
    /\ client = <<>>
    /\ wait = <<>>
    /\ mpr = NoMpr
    /\ op = NoOp

InitConn == [state |-> HTTP_STATE_BEGIN, canProceed |-> FALSE, advancing |-> FALSE,
             error |-> FALSE, connError |-> FALSE, abortPipeline |-> FALSE,
             complete |-> FALSE, writeComplete |-> FALSE, writeBlocked |-> FALSE,
             keepAliveCount |-> 1, http10 |-> FALSE, protocol |-> sHTTP11,
             omitBody |-> FALSE, raised |-> {}, input |-> NullPacket,
             closed |-> FALSE, writes |-> 0, errorsLatch |-> FALSE,
             authType |-> Null, authDomain |-> Null, authNonce |-> Null,
             authOpaque |-> Null, authQop |-> Null, authRealm |-> Null]

Init ==
    /\ wire \in Wires
    /\ stream = Concat(wire)
    /\ conn \in {[InitConn EXCEPT !.errorsLatch = b] : b \in BOOLEAN}
    /\ rx = NoRx
    /\ q = EmptyQueue
    /\ pkt = "null"
    /\ hooks = NoHooks
    /\ done = <<>>
    /\ last = "init"
    /\ NoServer

Machine == [conn |-> conn, rx |-> rx, q |-> q, hooks |-> hooks, keepAlive |-> 0, ret |-> FALSE,
            validated |-> NoValidations]

\* the end of one iteration of the loop of httpProcess
Stepped(res, name) ==
    /\ conn' = [res.conn EXCEPT !.canProceed = res.ret]
    /\ rx' = res.rx
    /\ q' = res.q
    /\ hooks' = res.hooks
    /\ pkt' = "input"
    /\ last' = name

\* the entry of httpProcess(conn, packet)
httpProcessEntry(c) == [c EXCEPT !.canProceed = TRUE, !.advancing = TRUE]

(***************************************************************************)
(* Events of the dispatcher.                                               *)
(***************************************************************************)
\* a readable event: n bytes are appended to conn->input, then httpProcess
ReadEvent(n) ==
    /\ ~conn.advancing /\ ~conn.closed
    /\ n \in 1..Len(stream)
    /\ LET bytes == SubSeq(stream, 1, n)
           in == IF conn.input.null THEN MkPacket("conn", bytes)
                 ELSE [conn.input EXCEPT !.content = @ \o bytes]
       IN  conn' = httpProcessEntry([conn EXCEPT !.input = in])
    /\ stream' = Drop(stream, n)
    /\ pkt' = "input"
    /\ last' = "read"
    /\ UNCHANGED serverVars
    /\ UNCHANGED <<wire, rx, q, hooks, done>>

\* a writable event while a request is in progress
WriteEvent ==
    /\ ~conn.advancing /\ ~conn.closed
    /\ conn.state \in {HTTP_STATE_CONTENT, HTTP_STATE_RUNNING}
    /\ conn.writes < MaxWrites
    /\ conn' = httpProcessEntry([conn EXCEPT !.writeBlocked = FALSE, !.writes = @ + 1])
    /\ pkt' = "input"
    /\ last' = "write"
    /\ UNCHANGED serverVars
    /\ UNCHANGED <<wire, stream, rx, q, hooks, done>>

\* httpCloseRx: the socket was closed
httpCloseRx ==
    /\ ~conn.advancing /\ ~conn.closed
    /\ rx.exists
    /\ LET c1 == [conn EXCEPT !.connError = @ \/ ~rx.eof, !.closed = TRUE] IN
       conn' = IF c1.state < HTTP_STATE_COMPLETE /\ ~c1.advancing
               THEN httpProcessEntry(c1) ELSE c1
    /\ hooks' = [hooks EXCEPT !.finalize = @ + 1]
    /\ pkt' = "null"
    /\ last' = "close"
    /\ UNCHANGED serverVars
    /\ UNCHANGED <<wire, stream, rx, q, done>>

(***************************************************************************)
(* The iterations of the loop of httpProcess, by the state switched on.    *)
(***************************************************************************)
Running == conn.advancing /\ conn.canProceed

ParseIncomingStep ==
    /\ Running
    /\ conn.state \in {HTTP_STATE_BEGIN, HTTP_STATE_CONNECTED}
    /\ Stepped(parseIncoming(Machine, pkt), "parseIncoming")
    /\ UNCHANGED serverVars
    /\ UNCHANGED <<wire, stream, done>>

ProcessParsedStep ==
    /\ Running
    /\ conn.state = HTTP_STATE_PARSED
    /\ \E h \in HandlerOutcomes : Stepped(processParsed(Machine, h), "processParsed")
    /\ UNCHANGED serverVars
    /\ UNCHANGED <<wire, stream, done>>

ProcessContentStep ==
    /\ Running
    /\ conn.state = HTTP_STATE_CONTENT
    /\ \E drain \in BOOLEAN : Stepped(processContent(Machine, pkt, drain), "processContent")
    /\ UNCHANGED serverVars
    /\ UNCHANGED <<wire, stream, done>>

ProcessRunningStep ==
    /\ Running
    /\ conn.state = HTTP_STATE_RUNNING
    /\ \E h \in (IF hooks.process >= MaxWrites THEN {"finish"} ELSE HandlerOutcomes),
          drain, workDone, undef \in BOOLEAN :
          Stepped(processRunning(Machine, h, drain, workDone, undef), "processRunning")
    /\ UNCHANGED serverVars
    /\ UNCHANGED <<wire, stream, done>>

\* what is known of a request when processCompletion destroys its Rx
SnapshotOf(m) == [method |-> m.rx.method, uri |-> m.rx.uri, length |-> m.rx.length,
                  receivedContent |-> m.rx.receivedContent, eof |-> m.rx.eof,
                  headers |-> m.rx.headers, data |-> m.q.data, ends |-> m.q.ends,
                  declined |-> m.q.declined, raised |-> m.conn.raised]

Snapshot == SnapshotOf(Machine)

ProcessCompletionStep ==
    /\ Running
    /\ conn.state = HTTP_STATE_COMPLETE
    /\ Stepped([processCompletion(Machine) EXCEPT !.conn.writes = 0], "processCompletion")
    /\ done' = Append(done, Snapshot)
    /\ UNCHANGED serverVars
    /\ UNCHANGED <<wire, stream>>

\* the loop ends: conn->advancing = 0
ProcessReturn ==
    /\ conn.advancing /\ ~conn.canProceed
    /\ conn' = [conn EXCEPT !.advancing = FALSE]
    /\ last' = "return"
    /\ UNCHANGED serverVars
    /\ UNCHANGED <<wire, stream, rx, q, pkt, hooks, done>>

Next ==
    \/ \E n \in 1..Len(stream) : ReadEvent(n)
    \/ WriteEvent
    \/ httpCloseRx
    \/ ParseIncomingStep
    \/ ProcessParsedStep
    \/ ProcessContentStep
    \/ ProcessRunningStep
    \/ ProcessCompletionStep
    \/ ProcessReturn

Spec == Init /\ [][Next]_vars

(***************************************************************************)
(* httpProcess run from its entry to its return, for a handler that does   *)
(* nothing when the pipeline starts, takes what is queued for it whenever  *)
(* the queues are serviced and completes the response when it is run.      *)
(* SpecFeed feeds a stream of well-formed requests to the connection with  *)
(* this handler: one byte per readable event, or all bytes in one event.   *)
(***************************************************************************)
MaxSteps == 60

\* one iteration of the loop: the switch on conn->state
httpProcessSwitch(m, p) ==
    IF m.conn.state \in {HTTP_STATE_BEGIN, HTTP_STATE_CONNECTED} THEN parseIncoming(m, p)
    ELSE IF m.conn.state = HTTP_STATE_PARSED THEN processParsed(m, "none")
    ELSE IF m.conn.state = HTTP_STATE_CONTENT THEN processContent(m, p, TRUE)
    ELSE IF m.conn.state = HTTP_STATE_RUNNING THEN processRunning(m, "finish", TRUE, FALSE, FALSE)
    ELSE [processCompletion(m) EXCEPT !.done = Append(@, SnapshotOf(m))]

\* conn->canProceed = the value the step returned
Proceed(r) == [r EXCEPT !.conn.canProceed = r.ret]

RECURSIVE httpProcessLoop(_, _, _)
httpProcessLoop(m, p, fuel) ==
    IF ~m.conn.canProceed THEN [m EXCEPT !.conn.advancing = FALSE]
    ELSE IF fuel = 0 THEN m
    ELSE httpProcessLoop(Proceed(httpProcessSwitch(m, p)), "input", fuel - 1)

\* a readable event with the given bytes, then httpProcess(conn, conn->input)
FeedEvent(m, bytes) ==
    LET in == IF m.conn.input.null THEN MkPacket("conn", bytes)
              ELSE [m.conn.input EXCEPT !.content = @ \o bytes]
    IN  httpProcessLoop([m EXCEPT !.conn = httpProcessEntry([@ EXCEPT !.input = in])],
                        "input", MaxSteps)

FeedMachine == [conn |-> conn, rx |-> rx, q |-> q, hooks |-> hooks, keepAlive |-> 0,
                ret |-> FALSE, validated |-> NoValidations, done |-> done]

Fed(res, name) ==
    /\ conn' = res.conn
    /\ rx' = res.rx
    /\ q' = res.q
    /\ hooks' = res.hooks
    /\ done' = res.done
    /\ pkt' = "input"
    /\ last' = name

FeedByte ==
    /\ last \in {"init", "feedByte"}
    /\ stream # <<>>
    /\ Fed(FeedEvent(FeedMachine, <<Head(stream)>>), "feedByte")
    /\ stream' = Tail(stream)
    /\ UNCHANGED wire
    /\ UNCHANGED serverVars

FeedAll ==
    /\ last = "init"
    /\ stream # <<>>
    /\ Fed(FeedEvent(FeedMachine, stream), "feedAll")
    /\ stream' = <<>>
    /\ UNCHANGED wire
    /\ UNCHANGED serverVars

InitFeed ==
    /\ Init
    /\ WellFormed(wire)

NextFeed == FeedByte \/ FeedAll

SpecFeed == InitFeed /\ [][NextFeed]_vars

(***************************************************************************)
(* Properties of the connection state machine.                             *)
(***************************************************************************)
Suspended == ~conn.advancing

Identity == rx.exists /\ "CHUNKED" \notin rx.flags

\* C1: within one request the state never moves backwards along
\* BEGIN < PARSED < CONTENT < RUNNING < COMPLETE; the only step that lowers
\* the state is processCompletion, which destroys the Rx and returns to BEGIN.
C1_StateMonotone ==
    [][conn'.state < conn.state =>
          /\ last' = "processCompletion"
          /\ conn.state = HTTP_STATE_COMPLETE
          /\ conn'.state = HTTP_STATE_BEGIN
          /\ ~rx'.exists]_vars

\* a request went through every state and the connection is back in BEGIN
C1_Witness ==
    /\ last = "processCompletion"
    /\ conn.state = HTTP_STATE_BEGIN
    /\ Len(done) = 2

C2_AllPipelinedComplete ==
    (WellFormed(wire) /\ stream = <<>> /\ Suspended /\ ~conn.closed
        /\ conn.state = HTTP_STATE_BEGIN)
        => /\ Len(done) = Len(wire)
           /\ \A i \in 1..Len(done) : done[i].method = TokenValue(wire[i], SP)
           /\ conn.input.null \/ PacketLength(conn.input) = 0

\* C3: when processCompletion runs with unread bytes in conn.input and no
\* connError, the bytes stay conn.input after the Rx is destroyed and the step
\* lets the loop of httpProcess go on (canProceed), so the next request is
\* parsed in the same invocation.
C3_PipelinedInputKept ==
    [][(last' = "processCompletion" /\ ~conn.input.null /\ PacketLength(conn.input) > 0
            /\ ~conn.connError)
          => /\ ~conn'.input.null
             /\ conn'.input.content = conn.input.content
             /\ conn'.canProceed]_vars

\* the request being received, and the bytes after its header block
CurrentRequest == wire[Len(done) + 1]

BodyOf(req, n) == SubSeq(req, mprStrnstr(req, CRLFCRLF) + 4, mprStrnstr(req, CRLFCRLF) + 3 + n)

IsPrefix(s, t) == Len(s) <= Len(t) /\ s = SubSeq(t, 1, Len(s))

NoError == ~conn.error /\ ~conn.connError

\* C5: for an identity-framed body of declared length L > 0 and no error,
\* the bytes dispatched to the receive queue are bytes that follow the header
\* block, in arrival order, and when the request is in RUNNING (the handler
\* not having completed it before the body was in) they are exactly the L
\* bytes, followed by exactly one end packet, with receivedContent = L.
C5_IdentityBodyDelivered ==
    (Identity /\ rx.contentLength # <<>> /\ rx.length > 0 /\ NoError)
        => /\ IsPrefix(q.data, BodyOf(CurrentRequest, rx.length))
           /\ (conn.state = HTTP_STATE_RUNNING /\ ~conn.complete)
                 => /\ q.data = BodyOf(CurrentRequest, rx.length)
                    /\ q.ends = 1
                    /\ rx.receivedContent = rx.length

\* C6: for a chunked body and no error, the data bytes dispatched to the
\* receive queue are the chunk payloads in order, and all of them when the
\* request is in RUNNING (the handler not having completed it before the body
\* was in), however the body was split across packets.
C6_ChunkPayloadDelivered ==
    (rx.exists /\ "CHUNKED" \in rx.flags /\ CurrentRequest = ReqChunked /\ NoError)
        => /\ IsPrefix(q.data, ChunkPayload)
           /\ (conn.state = HTTP_STATE_RUNNING /\ ~conn.complete) => q.data = ChunkPayload

\* C7: when the receive queue declines a body packet, nothing is enqueued,
\* the declined bytes stay pending as conn.input and they are not counted in
\* receivedContent.
C7_DeclineKeepsBytes ==
    [][q'.declined > q.declined
          => /\ q'.data = q.data
             /\ conn'.input = conn.input
             /\ rx'.receivedContent = rx.receivedContent]_vars

\* C9: once connError is latched during CONTENT the request does not stay
\* waiting in CONTENT: the machine is never suspended in CONTENT with
\* connError set.
C9_ConnErrorLeavesContent ==
    (conn.connError /\ Suspended) => conn.state # HTTP_STATE_CONTENT

\* C10: an error raised while parsing a request does not leave the
\* connection in BEGIN: the machine is never suspended in BEGIN with the
\* error of the current request set.
C10_ParseErrorLeavesBegin ==
    (conn.error /\ Suspended) => conn.state # HTTP_STATE_BEGIN

\* the final Rx and connection state of a run: the requests completed so
\* far, the request in progress and the state of the connection
RxView(r, data) == [method |-> r.method, uri |-> r.uri, headers |-> r.headers,
                    length |-> r.length, data |-> data, eof |-> r.eof]

FinalOf(m) == [state |-> m.conn.state,
               completed |-> [i \in 1..Len(m.done) |-> RxView(m.done[i], m.done[i].data)],
               current |-> IF m.rx.exists THEN <<RxView(m.rx, m.q.data)>> ELSE <<>>]

\* the run that receives all the bytes of the wire in a single readable event
SingleEvent ==
    FeedEvent([conn |-> [InitConn EXCEPT !.errorsLatch = conn.errorsLatch], rx |-> NoRx,
               q |-> EmptyQueue, hooks |-> NoHooks, keepAlive |-> 0, ret |-> FALSE,
               validated |-> NoValidations,
               done |-> <<>>],
              Concat(wire))

\* C8: once a stream of well-formed requests was fed one byte per readable
\* event, the completed requests (method, URI, headers, length, received
\* body, eof), the request in progress and the connection state are those of
\* feeding the same bytes in a single event.
C8_ByteFeedSameAsSingleEvent ==
    (last = "feedByte" /\ stream = <<>>) => FinalOf(FeedMachine) = FinalOf(SingleEvent)

(***************************************************************************)
(* Hosts and their route tables (host.c).  A host refers to its route      *)
(* table by the id of an MprList; a clone starts with the id of its        *)
(* parent's list.  The lists hold route ids, and the HttpRoute objects are *)
(* shared by every list that holds their id.                               *)
(***************************************************************************)
MaxHosts == 2
MaxRoutes == 3
MaxCalls == 6

\* the connection of the first part stays idle while the rest of the server runs
IdleConn ==
    /\ wire = <<>>
    /\ stream = <<>>
    /\ conn = InitConn
    /\ rx = NoRx
    /\ q = EmptyQueue
    /\ pkt = "null"
    /\ hooks = NoHooks
    /\ done = <<>>
    /\ last = "init"

\* httpCreateRoute with the pattern and the start segment set; the object is zero filled
NewRoute(pattern, startSegment) ==
    [pattern |-> pattern, startSegment |-> startSegment, nextGroup |-> 0, host |-> 0]

\* the routes of the configuration: three with a pattern, two default routes
RoutePool ==
    << NewRoute("^/a/x", "/a"), NewRoute("^/a/y", "/a"), NewRoute("^/b", "/b"),
       NewRoute("", ""), NewRoute("", "") >>

World == [hosts |-> hosts, lists |-> lists, routes |-> routes]

\* mprLookupItem: the 0-based index of the item, -1 when it is not in the list
mprLookupItem(items, r) ==
    IF \E i \in DOMAIN items : items[i] = r
    THEN (CHOOSE i \in DOMAIN items : items[i] = r) - 1
    ELSE -1

\* mprInsertItemAtPos and mprAddItem: the item is at the 0-based index pos afterwards
mprInsertItemAtPos(items, pos, r) ==
    SubSeq(items, 1, pos) \o <<r>> \o SubSeq(items, pos + 1, Len(items))

\* the copy on write of httpAddRoute: mprCloneList copies the item pointers
CopyOnWrite(w, h) ==
    IF w.hosts[h].parent # 0 /\ w.hosts[h].routes = w.hosts[w.hosts[h].parent].routes
    THEN [w EXCEPT !.lists = Append(@, w.lists[w.hosts[h].routes]),
                   !.hosts[h].routes = Len(w.lists) + 1]
    ELSE w

\* mutant: the route is always appended
InsertPositionAppend(items, rs, r) == Len(items)

\* the 0-based index the new route gets: before a last default route, else at the end
InsertPosition(items, rs, r) ==
    IF rs[r].pattern # "" /\ items # <<>> /\ rs[items[Len(items)]].pattern = ""
    THEN Len(items) - 1
    ELSE Len(items)

\* the loop over the entries before prev
RECURSIVE WalkBack(_, _, _, _, _)
WalkBack(rs, items, i, seg, thisRoute) ==
    IF i < 0 THEN rs
    ELSE IF rs[items[i + 1]].startSegment = seg
         THEN WalkBack([rs EXCEPT ![items[i + 1]].nextGroup = thisRoute],
                       items, i - 1, seg, thisRoute)
         ELSE rs

\* items is the list with the route at the 0-based index thisRoute
LinkGroups(rs, items, thisRoute, r) ==
    IF thisRoute > 0 /\ rs[items[thisRoute]].startSegment # rs[r].startSegment
    THEN WalkBack([rs EXCEPT ![items[thisRoute]].nextGroup = thisRoute],
                  items, thisRoute - 2, rs[items[thisRoute]].startSegment, thisRoute)
    ELSE rs

InsertAt(w, l, r, thisRoute) ==
    [w EXCEPT !.lists[l] = mprInsertItemAtPos(@, thisRoute, r),
              !.routes = LinkGroups(@, mprInsertItemAtPos(w.lists[l], thisRoute, r),
                                    thisRoute, r)]

InsertRoute(w, h, r) ==
    IF mprLookupItem(w.lists[w.hosts[h].routes], r) < 0
    THEN InsertAt(w, w.hosts[h].routes, r,
                  InsertPosition(w.lists[w.hosts[h].routes], w.routes, r))
    ELSE w

httpSetRouteHost(w, r, h) == [w EXCEPT !.routes[r].host = h]

httpAddRoute(w, h, r) == httpSetRouteHost(InsertRoute(CopyOnWrite(w, h), h, r), r, h)

InWorld(w) ==
    /\ hosts' = w.hosts
    /\ lists' = w.lists
    /\ routes' = w.routes

hostVars == <<hosts, lists, routes>>

endpointVars == <<endpoints, connections, conns, cursor>>

waitVars == <<client, wait>>

\* op.calls counts the calls of the host interface
Done(name, on, arg, ret) ==
    op' = [name |-> name, on |-> on, arg |-> arg, ret |-> ret, calls |-> op.calls]

Called(name, on, arg, ret) ==
    /\ op.calls < MaxCalls
    /\ op' = [name |-> name, on |-> on, arg |-> arg, ret |-> ret, calls |-> op.calls + 1]

NewHost(parent, l) == [parent |-> parent, routes |-> l, name |-> ""]

CreateHost ==
    /\ Len(hosts) < MaxHosts
    /\ lists' = Append(lists, <<>>)
    /\ hosts' = Append(hosts, NewHost(0, Len(lists) + 1))
    /\ Called("httpCreateHost", Len(hosts) + 1, 0, "0")
    /\ UNCHANGED <<routes, endpointVars, waitVars, mpr, vars>>

CloneHost(parent) ==
    /\ Len(hosts) < MaxHosts
    /\ hosts' = Append(hosts, NewHost(parent, hosts[parent].routes))
    /\ Called("httpCloneHost", Len(hosts) + 1, parent, "0")
    /\ UNCHANGED <<lists, routes, endpointVars, waitVars, mpr, vars>>

AddRoute(h, r) ==
    /\ \/ Len(lists[hosts[h].routes]) < MaxRoutes
       \/ mprLookupItem(lists[hosts[h].routes], r) >= 0
    /\ InWorld(httpAddRoute(World, h, r))
    /\ Called("httpAddRoute", h, r, "0")
    /\ UNCHANGED <<endpointVars, waitVars, mpr, vars>>

InitRoutes ==
    /\ IdleConn
    /\ hosts = <<>>
    /\ lists = <<>>
    /\ routes = RoutePool
    /\ endpoints = <<>>
    /\ connections = [items |-> <<>>, lock |-> FALSE]
    /\ conns = <<>>
    /\ cursor = [active |-> FALSE, endpoint |-> 0, next |-> 0]
    /\ client = <<>>
    /\ wait = <<>>
    /\ mpr = NoMpr
    /\ op = NoOp

NextRoutes ==
    \/ CreateHost
    \/ \E parent \in DOMAIN hosts : CloneHost(parent)
    \/ \E h \in DOMAIN hosts : \E r \in DOMAIN routes : AddRoute(h, r)

SpecRoutes == InitRoutes /\ [][NextRoutes]_allVars

\* the route table of host h
RoutesOf(h) == lists[hosts[h].routes]

EmptyPattern(r) == routes[r].pattern = ""

(***************************************************************************)
(* C11 as stated: in every route table, every route with a non-empty       *)
(* pattern comes before every route with an empty pattern.                 *)
(***************************************************************************)
C11_PatternsBeforeDefaults ==
    \A h \in DOMAIN hosts : \A i, j \in DOMAIN RoutesOf(h) :
        (EmptyPattern(RoutesOf(h)[i]) /\ ~EmptyPattern(RoutesOf(h)[j])) => j < i

(***************************************************************************)
(* C11 amended: a route table that holds a route with an empty pattern     *)
(* ends with a route with an empty pattern, and when it holds exactly one  *)
(* such route every route with a non-empty pattern comes before it.        *)
(***************************************************************************)
C11_DefaultRouteLast ==
    \A h \in DOMAIN hosts :
        LET defaults == {i \in DOMAIN RoutesOf(h) : EmptyPattern(RoutesOf(h)[i])}
        IN  /\ defaults # {} => Len(RoutesOf(h)) \in defaults
            /\ Cardinality(defaults) = 1 =>
                   \A j \in DOMAIN RoutesOf(h) : j \notin defaults => \A i \in defaults : j < i

\* a route with a pattern has just been put in front of the default route
C11_Witness ==
    /\ op.name = "httpAddRoute"
    /\ ~EmptyPattern(op.arg)
    /\ Len(RoutesOf(op.on)) >= 2
    /\ RoutesOf(op.on)[Len(RoutesOf(op.on)) - 1] = op.arg
    /\ EmptyPattern(RoutesOf(op.on)[Len(RoutesOf(op.on))])

\* the 0-based index of the first entry after the entry i (1-based) of items whose
\* start segment differs, the length of the list when there is none
GroupEnd(items, i) ==
    LET later == {j \in (i + 1)..Len(items) :
                     routes[items[j]].startSegment # routes[items[i]].startSegment}
    IN  IF later = {} THEN Len(items)
        ELSE (CHOOSE j \in later : \A k \in later : j <= k) - 1

(***************************************************************************)
(* C12: in every route table, the nextGroup of every entry is the index of *)
(* the first later entry with another start segment, or the length of the  *)
(* list when no later entry has another start segment.                     *)
(***************************************************************************)
C12_NextGroupSkipsGroup ==
    \A h \in DOMAIN hosts : \A i \in DOMAIN RoutesOf(h) :
        routes[RoutesOf(h)[i]].nextGroup = GroupEnd(RoutesOf(h), i)

\* the route table of host h as seen through h: its routes in order, each with its nextGroup
TableView(h) ==
    [i \in DOMAIN RoutesOf(h) |->
        [route |-> RoutesOf(h)[i], nextGroup |-> routes[RoutesOf(h)[i]].nextGroup]]

(***************************************************************************)
(* C13: httpAddRoute on a clone leaves the route table of its parent, as   *)
(* seen through the parent, as it was: the same routes in the same order,  *)
(* each with the same nextGroup.                                           *)
(***************************************************************************)
C13_ParentTableUntouched ==
    [][\A c \in DOMAIN hosts :
          (hosts[c].parent # 0 /\ op'.name = "httpAddRoute" /\ op'.on = c) =>
              TableView(hosts[c].parent)' = TableView(hosts[c].parent)]_allVars

(***************************************************************************)
(* Endpoints (endpoint.c).  endpoint.sock is "none" for a null pointer,    *)
(* "created" for a socket that is not bound, "bound" for a socket that     *)
(* listens without an accept handler and "listening" for one that accepts. *)
(***************************************************************************)
MaxEndpoints == 2
MaxEndpointHosts == 1
MaxConns == 3

MPR_ERR_BAD_ARGS == "MPR_ERR_BAD_ARGS"
MPR_ERR_MEMORY == "MPR_ERR_MEMORY"
MPR_ERR_CANT_OPEN == "MPR_ERR_CANT_OPEN"

Ports == {80, 8080}

NewEndpoint(port) ==
    [port |-> port, hosts |-> <<>>, sock |-> "none", namedVirtualHosts |-> FALSE,
     registered |-> TRUE]

\* mutant: an endpoint without a host is accepted
validateEndpointAlways(endpoint) == TRUE

validateEndpoint(endpoint) == endpoint.hosts # <<>>

\* what mprCreateSocket, mprListenOnSocket and http->listenCallback can do
StartOutcomes == {"started", "noSocket", "listenFailed", "callbackFailed"}

\* the endpoint after httpStartEndpoint and the value returned
httpStartEndpoint(endpoint, outcome) ==
    IF ~validateEndpoint(endpoint)
    THEN [endpoint |-> endpoint, ret |-> MPR_ERR_BAD_ARGS]
    ELSE IF outcome = "noSocket"
    THEN [endpoint |-> [endpoint EXCEPT !.sock = "none"], ret |-> MPR_ERR_MEMORY]
    ELSE IF outcome = "listenFailed"
    THEN [endpoint |-> [endpoint EXCEPT !.sock = "created"], ret |-> MPR_ERR_CANT_OPEN]
    ELSE IF outcome = "callbackFailed"
    THEN [endpoint |-> [endpoint EXCEPT !.sock = "bound"], ret |-> MPR_ERR_CANT_OPEN]
    ELSE [endpoint |-> [endpoint EXCEPT !.sock = "listening"], ret |-> "0"]

httpStopEndpoint(endpoint) == [endpoint EXCEPT !.sock = "none"]

httpSetEndpointAddress(endpoint, port, outcome) ==
    IF endpoint.sock # "none"
    THEN httpStartEndpoint(httpStopEndpoint([endpoint EXCEPT !.port = port]), outcome).endpoint
    ELSE [endpoint EXCEPT !.port = port]

httpAddHostToEndpoint(endpoint, h) == [endpoint EXCEPT !.hosts = Append(@, h)]

NewConn(e) == [endpoint |-> e, destroyed |-> 0, host |-> 0, hostHeader |-> <<>>,
               error |-> FALSE, raised |-> {}, sockClosed |-> FALSE, matched |-> FALSE]

\* mprGetNextItem(list, &next): the item, 0 at the end of the list
mprGetNextItem(items, next) == IF next < Len(items) THEN items[next + 1] ELSE 0

\* httpDestroyConn takes the connection off http->connections
httpDestroyConn(s, c) ==
    [s EXCEPT !.items = SelectSeq(@, LAMBDA x : x # c), !.conns[c].destroyed = @ + 1]

\* mutant: the index is not moved back after an item was removed
VisitConnKeepNext(s, e) ==
    IF s.conns[mprGetNextItem(s.items, s.next)].endpoint = e
    THEN [httpDestroyConn(s, mprGetNextItem(s.items, s.next)) EXCEPT !.next = s.next + 1]
    ELSE [s EXCEPT !.next = s.next + 1]

\* one iteration of the loop of destroyEndpointConnections, mprGetNextItem returned an item
VisitConn(s, e) ==
    IF s.conns[mprGetNextItem(s.items, s.next)].endpoint = e
    THEN [httpDestroyConn(s, mprGetNextItem(s.items, s.next)) EXCEPT !.next = (s.next + 1) - 1]
    ELSE [s EXCEPT !.next = s.next + 1]

Iteration == [items |-> connections.items, conns |-> conns, next |-> cursor.next]

Live(e) == e \in DOMAIN endpoints /\ endpoints[e].registered

\* no thread is inside httpDestroyEndpoint
Quiet == ~cursor.active

CreateEndpoint(port) ==
    /\ Len(endpoints) < MaxEndpoints
    /\ endpoints' = Append(endpoints, NewEndpoint(port))
    /\ Done("httpCreateEndpoint", Len(endpoints) + 1, port, "0")
    /\ UNCHANGED <<connections, conns, cursor, hostVars, waitVars, mpr, vars>>

AddHostToEndpoint(e, h) ==
    /\ Live(e)
    /\ Len(endpoints[e].hosts) < MaxEndpointHosts
    /\ endpoints' = [endpoints EXCEPT ![e] = httpAddHostToEndpoint(@, h)]
    /\ Done("httpAddHostToEndpoint", e, h, "0")
    /\ UNCHANGED <<connections, conns, cursor, hostVars, waitVars, mpr, vars>>

StartEndpoint(e, outcome) ==
    /\ Live(e)
    /\ endpoints' = [endpoints EXCEPT ![e] = httpStartEndpoint(@, outcome).endpoint]
    /\ Done("httpStartEndpoint", e, 0, httpStartEndpoint(endpoints[e], outcome).ret)
    /\ UNCHANGED <<connections, conns, cursor, hostVars, waitVars, mpr, vars>>

StopEndpoint(e) ==
    /\ Live(e)
    /\ endpoints' = [endpoints EXCEPT ![e] = httpStopEndpoint(@)]
    /\ Done("httpStopEndpoint", e, 0, "0")
    /\ UNCHANGED <<connections, conns, cursor, hostVars, waitVars, mpr, vars>>

SetEndpointAddress(e, port, outcome) ==
    /\ Live(e)
    /\ endpoints' = [endpoints EXCEPT ![e] = httpSetEndpointAddress(@, port, outcome)]
    /\ Done("httpSetEndpointAddress", e, port, "0")
    /\ UNCHANGED <<connections, conns, cursor, hostVars, waitVars, mpr, vars>>

\* a connection is accepted on the endpoint and added to http->connections
AcceptConn(e) ==
    /\ Live(e)
    /\ endpoints[e].sock = "listening"
    /\ ~connections.lock
    /\ Len(conns) < MaxConns
    /\ conns' = Append(conns, NewConn(e))
    /\ connections' = [connections EXCEPT !.items = Append(@, Len(conns) + 1)]
    /\ Done("httpAcceptConn", e, Len(conns) + 1, "0")
    /\ UNCHANGED <<endpoints, cursor, hostVars, waitVars, mpr, vars>>

\* the thread that serves a connection closes it
CloseConn(c) ==
    /\ ~connections.lock
    /\ \E i \in DOMAIN connections.items : connections.items[i] = c
    /\ conns' = httpDestroyConn(Iteration, c).conns
    /\ connections' = [connections EXCEPT !.items = httpDestroyConn(Iteration, c).items]
    /\ Done("httpDestroyConn", conns[c].endpoint, c, "0")
    /\ UNCHANGED <<endpoints, cursor, hostVars, waitVars, mpr, vars>>

\* httpDestroyEndpoint up to the first test of the loop of destroyEndpointConnections
DestroyEndpointEnter(e) ==
    /\ Quiet
    /\ Live(e)
    /\ ~connections.lock
    /\ connections' = [connections EXCEPT !.lock = TRUE]
    /\ cursor' = [active |-> TRUE, endpoint |-> e, next |-> 0]
    /\ Done("lock", e, 0, "0")
    /\ UNCHANGED <<endpoints, conns, hostVars, waitVars, mpr, vars>>

DestroyEndpointVisit ==
    /\ cursor.active
    /\ mprGetNextItem(connections.items, cursor.next) # 0
    /\ connections' = [connections EXCEPT !.items = VisitConn(Iteration, cursor.endpoint).items]
    /\ conns' = VisitConn(Iteration, cursor.endpoint).conns
    /\ cursor' = [cursor EXCEPT !.next = VisitConn(Iteration, cursor.endpoint).next]
    /\ Done("visit", cursor.endpoint, mprGetNextItem(connections.items, cursor.next), "0")
    /\ UNCHANGED <<endpoints, hostVars, waitVars, mpr, vars>>

\* the end of the loop, the unlock and the rest of httpDestroyEndpoint
DestroyEndpointLeave ==
    /\ cursor.active
    /\ mprGetNextItem(connections.items, cursor.next) = 0
    /\ connections' = [connections EXCEPT !.lock = FALSE]
    /\ endpoints' = [endpoints EXCEPT ![cursor.endpoint].sock = "none",
                                      ![cursor.endpoint].registered = FALSE]
    /\ cursor' = [active |-> FALSE, endpoint |-> 0, next |-> 0]
    /\ Done("httpDestroyEndpoint", cursor.endpoint, 0, "0")
    /\ UNCHANGED <<conns, hostVars, waitVars, mpr, vars>>

\* the loop of destroyEndpointConnections
RECURSIVE destroyEndpointConnections(_, _)
destroyEndpointConnections(s, e) ==
    IF mprGetNextItem(s.items, s.next) = 0 THEN s
    ELSE destroyEndpointConnections(VisitConn(s, e), e)

\* httpDestroyEndpoint from its entry to its return
DestroyEndpoint(e) ==
    /\ Quiet
    /\ Live(e)
    /\ ~connections.lock
    /\ connections' = [connections EXCEPT
                          !.items = destroyEndpointConnections(Iteration, e).items]
    /\ conns' = destroyEndpointConnections(Iteration, e).conns
    /\ endpoints' = [endpoints EXCEPT ![e].sock = "none", ![e].registered = FALSE]
    /\ Done("httpDestroyEndpoint", e, 0, "0")
    /\ UNCHANGED <<cursor, hostVars, waitVars, mpr, vars>>

NamedHost(name) == [parent |-> 0, routes |-> 0, name |-> name]

InitEndpoint ==
    /\ IdleConn
    /\ hosts = <<NamedHost(<<"a">>)>>
    /\ lists = <<>>
    /\ routes = <<>>
    /\ endpoints = <<>>
    /\ connections = [items |-> <<>>, lock |-> FALSE]
    /\ conns = <<>>
    /\ cursor = [active |-> FALSE, endpoint |-> 0, next |-> 0]
    /\ client = <<>>
    /\ wait = <<>>
    /\ mpr = NoMpr
    /\ op = NoOp

NextEndpoint ==
    \/ \E port \in Ports : CreateEndpoint(port)
    \/ \E e \in DOMAIN endpoints : \E h \in DOMAIN hosts : AddHostToEndpoint(e, h)
    \/ \E e \in DOMAIN endpoints : \E outcome \in StartOutcomes : StartEndpoint(e, outcome)
    \/ \E e \in DOMAIN endpoints : StopEndpoint(e)
    \/ \E e \in DOMAIN endpoints : \E port \in Ports : \E outcome \in StartOutcomes :
           SetEndpointAddress(e, port, outcome)
    \/ \E e \in DOMAIN endpoints : DestroyEndpoint(e)

SpecEndpoint == InitEndpoint /\ [][NextEndpoint]_allVars

(***************************************************************************)
(* C17: an endpoint whose listen socket is set has at least one host, and  *)
(* httpStartEndpoint on an endpoint without a host returns an error and    *)
(* leaves the endpoint without a socket.                                   *)
(***************************************************************************)
C17_SocketNeedsHost ==
    /\ \A e \in DOMAIN endpoints : endpoints[e].sock # "none" => endpoints[e].hosts # <<>>
    /\ (op.name = "httpStartEndpoint" /\ endpoints[op.on].hosts = <<>>) =>
           (op.ret = MPR_ERR_BAD_ARGS /\ endpoints[op.on].sock = "none")

\* both halves happen: a start was refused for want of a host, another endpoint listens
C17_Witness ==
    /\ op.name = "httpStartEndpoint"
    /\ endpoints[op.on].hosts = <<>>
    /\ op.ret = MPR_ERR_BAD_ARGS
    /\ \E e \in DOMAIN endpoints : endpoints[e].sock = "listening" /\ endpoints[e].hosts # <<>>

(***************************************************************************)
(* httpDestroyEndpoint step by step, with the threads that accept and      *)
(* close connections.  The endpoints are started and the connections       *)
(* accepted so far are drawn from the sequences the accept order can give. *)
(***************************************************************************)
StartedEndpoint == [NewEndpoint(80) EXCEPT !.hosts = <<1>>, !.sock = "listening"]

InList(c) == \E i \in DOMAIN connections.items : connections.items[i] = c

InitDestroy ==
    /\ IdleConn
    /\ hosts = <<NamedHost(<<"a">>)>>
    /\ lists = <<>>
    /\ routes = <<>>
    /\ endpoints = [e \in 1..MaxEndpoints |-> StartedEndpoint]
    /\ \E n \in 0..MaxConns : \E es \in [1..n -> 1..MaxEndpoints] :
           conns = [i \in 1..n |-> NewConn(es[i])]
    /\ connections = [items |-> [i \in DOMAIN conns |-> i], lock |-> FALSE]
    /\ cursor = [active |-> FALSE, endpoint |-> 0, next |-> 0]
    /\ client = <<>>
    /\ wait = <<>>
    /\ mpr = NoMpr
    /\ op = NoOp

NextDestroy ==
    \/ \E e \in DOMAIN endpoints : AcceptConn(e)
    \/ \E c \in DOMAIN conns : CloseConn(c)
    \/ \E e \in DOMAIN endpoints : DestroyEndpointEnter(e)
    \/ DestroyEndpointVisit
    \/ DestroyEndpointLeave

SpecDestroy == InitDestroy /\ [][NextDestroy]_allVars

\* while the loop runs the list is locked; no connection is destroyed twice; when
\* httpDestroyEndpoint returns every connection of the endpoint was destroyed and is off the list
DestroyedOnce ==
    /\ cursor.active => connections.lock
    /\ \A c \in DOMAIN conns : conns[c].destroyed <= 1
    /\ op.name = "httpDestroyEndpoint" =>
           \A c \in DOMAIN conns :
               conns[c].endpoint = op.on => (conns[c].destroyed = 1 /\ ~InList(c))

\* a step of the loop leaves the connections of the other endpoints as they are
OthersUntouched ==
    cursor.active =>
        \A c \in DOMAIN conns :
            conns[c].endpoint # cursor.endpoint =>
                (conns'[c] = conns[c] /\ (InList(c) => InList(c)'))

(***************************************************************************)
(* C18: httpDestroyEndpoint(e) holds the lock of the connection list while *)
(* it iterates, destroys every connection of e exactly once, leaves none   *)
(* of them on the list, and leaves the connections of other endpoints      *)
(* untouched.                                                              *)
(***************************************************************************)
C18_EndpointConnsDestroyed == []DestroyedOnce /\ [][OthersUntouched]_allVars

\* two connections of the endpoint that were neighbours on the list are gone, a
\* connection of another endpoint is still on the list
C18_Witness ==
    /\ op.name = "httpDestroyEndpoint"
    /\ \E c \in DOMAIN conns :
           /\ c + 1 \in DOMAIN conns
           /\ conns[c].endpoint = op.on /\ conns[c + 1].endpoint = op.on
           /\ conns[c].destroyed = 1 /\ conns[c + 1].destroyed = 1
    /\ \E c \in DOMAIN conns : conns[c].endpoint # op.on /\ InList(c)

(***************************************************************************)
(* The choice of the host of a request (endpoint.c).  Host names and Host  *)
(* headers are sequences of characters.                                    *)
(***************************************************************************)
MaxVirtualHosts == 2

HTTP_CODE_NOT_FOUND == 404

\* the hosts of the configuration: "*.b", "*", "a.b", and "*:8" as httpSetHostIpAddr
\* names a host that has a port and no ip address
HostPool ==
    << NamedHost(<<"*", ".", "b">>), NamedHost(<<"*">>), NamedHost(<<"a", ".", "b">>),
       NamedHost(<<"*", ":", "8">>) >>

\* the Host headers of the requests: none, "a.b", "A.b", "c.b", "c", "c:8"
HostHeaders ==
    { <<>>, <<"a", ".", "b">>, <<"A", ".", "b">>, <<"c", ".", "b">>, <<"c">>,
      <<"c", ":", "8">> }

\* smatch: the strings are equal, byte for byte
smatch(s1, s2) == s1 = s2

\* scontains: the pattern occurs in the string
scontains(str, pattern) == mprStrnstr(str, pattern) # 0

\* mutant: only the equal name matches
HostNameMatchesExact(hostName, name) == smatch(hostName, name)

\* the tests of the loop of httpLookupHostOnEndpoint on one host
HostNameMatches(hostName, name) ==
    \/ smatch(hostName, name)
    \/ /\ hostName # <<>>
       /\ hostName[1] = "*"
       /\ \/ Len(hostName) = 1
          \/ scontains(name, Tail(hostName))

\* the loop of httpLookupHostOnEndpoint from the 1-based index next
RECURSIVE LookupFrom(_, _, _)
LookupFrom(hs, name, next) ==
    IF next > Len(hs) THEN 0
    ELSE IF HostNameMatches(hosts[hs[next]].name, name) THEN hs[next]
    ELSE LookupFrom(hs, name, next + 1)

mprGetFirstItem(items) == IF items = <<>> THEN 0 ELSE items[1]

httpLookupHostOnEndpoint(endpoint, name) ==
    IF name = <<>> THEN mprGetFirstItem(endpoint.hosts)
    ELSE LookupFrom(endpoint.hosts, name, 1)

\* httpLookupEndpoint: the endpoint that listens for the connection, 0 when it is gone
httpLookupEndpoint(e) == IF Live(e) THEN e ELSE 0

ConnError(c, code) == httpError([conn |-> c], code).conn

\* mutant: no host is set when no host matches
httpMatchHostNoFallback(c, host, first) ==
    IF host = 0
    THEN [ConnError([c EXCEPT !.host = 0], HTTP_CODE_NOT_FOUND) EXCEPT !.host = 0]
    ELSE [c EXCEPT !.host = host]

\* httpMatchHost once the endpoint is known: host is the host found, first the first host
httpMatchHostFound(c, host, first) ==
    IF host = 0
    THEN [ConnError([c EXCEPT !.host = 0], HTTP_CODE_NOT_FOUND) EXCEPT !.host = first]
    ELSE [c EXCEPT !.host = host]

httpMatchHost(c) ==
    IF httpLookupEndpoint(c.endpoint) = 0 THEN [c EXCEPT !.sockClosed = TRUE]
    ELSE httpMatchHostFound(c,
             IF endpoints[c.endpoint].namedVirtualHosts
             THEN httpLookupHostOnEndpoint(endpoints[c.endpoint], c.hostHeader)
             ELSE mprGetFirstItem(endpoints[c.endpoint].hosts),
             mprGetFirstItem(endpoints[c.endpoint].hosts))

LookupHost(e, name) ==
    /\ Done("httpLookupHostOnEndpoint", e, name, httpLookupHostOnEndpoint(endpoints[e], name))
    /\ UNCHANGED <<hostVars, endpointVars, waitVars, mpr, vars>>

\* the headers of a request were parsed with this Host header; the host is chosen
MatchHost(c, name) ==
    /\ ~conns[c].matched
    /\ conns' = [conns EXCEPT ![c] = [httpMatchHost([@ EXCEPT !.hostHeader = name])
                                        EXCEPT !.matched = TRUE]]
    /\ Done("httpMatchHost", c, name, 0)
    /\ UNCHANGED <<endpoints, connections, cursor, hostVars, waitVars, mpr, vars>>

InitLookup ==
    /\ IdleConn
    /\ hosts = HostPool
    /\ lists = <<>>
    /\ routes = <<>>
    /\ \E n \in 0..MaxVirtualHosts : \E hs \in [1..n -> DOMAIN HostPool] :
       \E named \in BOOLEAN :
           endpoints = << [StartedEndpoint EXCEPT !.hosts = hs,
                                                  !.namedVirtualHosts = named] >>
    /\ conns = <<NewConn(1)>>
    /\ connections = [items |-> <<1>>, lock |-> FALSE]
    /\ cursor = [active |-> FALSE, endpoint |-> 0, next |-> 0]
    /\ client = <<>>
    /\ wait = <<>>
    /\ mpr = NoMpr
    /\ op = NoOp

NextLookup ==
    \/ \E e \in DOMAIN endpoints : \E name \in HostHeaders : LookupHost(e, name)
    \/ \E c \in DOMAIN conns : \E name \in HostHeaders : MatchHost(c, name)

SpecLookup == InitLookup /\ [][NextLookup]_allVars

\* the name of host h
NameOf(h) == hosts[h].name

\* the first host of hs with a name that matching accepts for the header, 0 when none
FirstHost(hs, header, matching(_, _)) ==
    LET found == {i \in DOMAIN hs : matching(NameOf(hs[i]), header)}
    IN  IF header = <<>> THEN (IF hs = <<>> THEN 0 ELSE hs[1])
        ELSE IF found = {} THEN 0
        ELSE hs[CHOOSE i \in found : \A j \in found : i <= j]

IsSuffixWildcard(hostName) == Len(hostName) >= 2 /\ hostName[1] = "*" /\ hostName[2] = "."

Contains(str, part) ==
    \E i \in 1..(Len(str) - Len(part) + 1) : SubSeq(str, i, i + Len(part) - 1) = part

\* a name equal to the header, the name "*", or "*.suffix" for a header that contains ".suffix"
MatchesAsStated(hostName, header) ==
    \/ hostName = header
    \/ hostName = <<"*">>
    \/ IsSuffixWildcard(hostName) /\ Contains(header, Tail(hostName))

\* a name equal to the header, or "*" followed by any text the header contains
MatchesStarText(hostName, header) ==
    \/ hostName = header
    \/ hostName # <<>> /\ hostName[1] = "*" /\ Contains(header, Tail(hostName))

Looked == op.name = "httpLookupHostOnEndpoint"

(***************************************************************************)
(* C14 as stated: httpLookupHostOnEndpoint returns the first host whose    *)
(* name equals the header, is "*", or is "*.suffix" for a header that      *)
(* contains ".suffix"; the first host for an empty header; null only when  *)
(* no host matches.                                                        *)
(***************************************************************************)
C14_FirstMatchingHost ==
    Looked => op.ret = FirstHost(endpoints[op.on].hosts, op.arg, MatchesAsStated)

(***************************************************************************)
(* C14 amended: httpLookupHostOnEndpoint returns the first host whose name *)
(* equals the header or is "*" followed by text that the header contains   *)
(* ("*" alone, "*.suffix", "*:port"); the first host for an empty header;  *)
(* null only when no host matches.                                         *)
(***************************************************************************)
C14_FirstStarTextHost ==
    Looked => op.ret = FirstHost(endpoints[op.on].hosts, op.arg, MatchesStarText)

\* hosts "*.b" then "*": a header without ".b" gets the second host
C14_Witness ==
    /\ Looked
    /\ Len(endpoints[op.on].hosts) = 2
    /\ NameOf(endpoints[op.on].hosts[1]) = <<"*", ".", "b">>
    /\ NameOf(endpoints[op.on].hosts[2]) = <<"*">>
    /\ op.arg = <<"c">>
    /\ op.ret = endpoints[op.on].hosts[2]

\* a name that is the header when the case of the letters is ignored
MatchesCaseless(hostName, header) ==
    \/ mprStrLower(hostName) = mprStrLower(header)
    \/ MatchesStarText(hostName, header)

(***************************************************************************)
(* C15: the exact match of httpLookupHostOnEndpoint ignores the case of    *)
(* the letters: a host whose name is the header in another case is found.  *)
(***************************************************************************)
C15_ExactMatchIgnoresCase ==
    Looked => op.ret = FirstHost(endpoints[op.on].hosts, op.arg, MatchesCaseless)

(***************************************************************************)
(* C16: after httpMatchHost on an endpoint with namedVirtualHosts and no   *)
(* host that matches the Host header, the 404 error is raised and the host *)
(* of the connection is the first host of the endpoint; on an endpoint     *)
(* without namedVirtualHosts the host of the connection is the first host  *)
(* whatever the header is.                                                 *)
(***************************************************************************)
C16_UnmatchedHostFallsBack ==
    \A c \in DOMAIN conns :
        conns[c].matched =>
            /\ (/\ endpoints[conns[c].endpoint].namedVirtualHosts
                /\ FirstHost(endpoints[conns[c].endpoint].hosts, conns[c].hostHeader,
                             MatchesStarText) = 0) =>
                   (/\ HTTP_CODE_NOT_FOUND \in conns[c].raised
                    /\ conns[c].host = mprGetFirstItem(endpoints[conns[c].endpoint].hosts))
            /\ ~endpoints[conns[c].endpoint].namedVirtualHosts =>
                   conns[c].host = mprGetFirstItem(endpoints[conns[c].endpoint].hosts)

\* no host matched on an endpoint with named virtual hosts: 404 and the first host
C16_Witness ==
    \E c \in DOMAIN conns :
        /\ conns[c].matched
        /\ endpoints[conns[c].endpoint].namedVirtualHosts
        /\ conns[c].hostHeader # <<>>
        /\ HTTP_CODE_NOT_FOUND \in conns[c].raised
        /\ conns[c].host # 0
        /\ conns[c].host = endpoints[conns[c].endpoint].hosts[1]

(***************************************************************************)
(* httpWait (host.c).  client is the connection the caller waits on:       *)
(* client.sock is FALSE for a null conn->sock, client.eof is               *)
(* mprIsSocketEof(conn->sock), client.handler is conn->waitHandler.fd >= 0.*)
(* wait.remaining is expire - http->now.  The entry values of async and of *)
(* the handler and whether httpWait removed a handler are kept as history. *)
(***************************************************************************)
MaxTimeout == 2

MPR_ERR_BAD_STATE == "MPR_ERR_BAD_STATE"
MPR_ERR_CONNECTION == "MPR_ERR_CONNECTION"
MPR_ERR_TIMEOUT == "MPR_ERR_TIMEOUT"

NoWait == [pc |-> "idle", state |-> 0, saveAsync |-> FALSE, addedHandler |-> FALSE,
           remaining |-> 0, entryAsync |-> FALSE, entryHandler |-> FALSE,
           removed |-> FALSE, ret |-> "none", timeout |-> 0, serviced |-> FALSE]

NewClient(state, async, handler, error, eof) ==
    [state |-> state, async |-> async, handler |-> handler, error |-> error,
     sock |-> TRUE, eof |-> eof]

\* the connection after the entry of httpWait, up to the test of the loop
httpWaitEnterConn(c) ==
    IF c.state <= HTTP_STATE_BEGIN THEN c
    ELSE IF ~c.handler THEN [c EXCEPT !.async = TRUE, !.handler = TRUE]
    ELSE c

\* the locals of httpWait after the entry
httpWaitEnter(c, state, timeout) ==
    IF c.state <= HTTP_STATE_BEGIN
    THEN [NoWait EXCEPT !.pc = "done", !.state = state, !.ret = MPR_ERR_BAD_STATE,
                        !.entryAsync = c.async, !.entryHandler = c.handler,
                        !.timeout = timeout]
    ELSE [NoWait EXCEPT !.pc = "loop", !.state = state, !.saveAsync = c.async,
                        !.addedHandler = ~c.handler,
                        !.remaining = IF timeout <= 0 THEN 0 ELSE timeout,
                        !.entryAsync = c.async, !.entryHandler = c.handler,
                        !.timeout = timeout]

\* mutant: the loop does not look at the time that remains
WaitingNoDeadline(c, w) ==
    ~c.error /\ c.state < w.state /\ c.sock /\ ~c.eof

\* the test of the loop and the test of remainingTime
Waiting(c, w) ==
    /\ ~c.error /\ c.state < w.state /\ c.sock /\ ~c.eof
    /\ w.remaining > 0

\* what one call of mprServiceEvents can run
ServiceEvents ==
    {[kind |-> "progress", state |-> s, unhook |-> FALSE] : s \in HTTP_STATE_BEGIN..HTTP_STATE_COMPLETE}
    \cup {[kind |-> k, state |-> 0, unhook |-> FALSE] : k \in {"error", "eof", "timer", "none"}}
    \cup {[kind |-> "close", state |-> 0, unhook |-> u] : u \in BOOLEAN}

\* the connection after the event: the request advances, an error is raised, the
\* peer closes its end, the connection is closed (its wait handler removed or not);
\* the timer of the Http service refreshes http->now; "none": the call waited and
\* returned with nothing run
mprServiceEvents(c, event) ==
    IF event.kind = "progress" THEN [c EXCEPT !.state = event.state]
    ELSE IF event.kind = "error" THEN [c EXCEPT !.error = TRUE]
    ELSE IF event.kind = "eof" THEN [c EXCEPT !.eof = TRUE]
    ELSE IF event.kind = "close"
    THEN [c EXCEPT !.sock = FALSE, !.handler = @ /\ ~event.unhook]
    ELSE c

\* the connection after the removal of the handler
httpWaitLeaveConn(c, w) ==
    IF w.addedHandler /\ c.handler
    THEN [c EXCEPT !.handler = FALSE, !.async = w.saveAsync]
    ELSE c

\* the value httpWait returns
httpWaitReturn(c, w) ==
    IF ~c.sock \/ c.error THEN MPR_ERR_CONNECTION
    ELSE IF c.state < w.state THEN MPR_ERR_TIMEOUT
    ELSE "0"

WaitEnter(state, timeout) ==
    /\ wait.pc = "idle"
    /\ client' = httpWaitEnterConn(client)
    /\ wait' = httpWaitEnter(client, state, timeout)
    /\ Done("httpWait", 0, state, httpWaitEnter(client, state, timeout).ret)
    /\ UNCHANGED <<hostVars, endpointVars, mpr, vars>>

WaitService(event) ==
    /\ wait.pc = "loop"
    /\ Waiting(client, wait)
    /\ event.kind = "progress" => event.state > client.state
    /\ client' = mprServiceEvents(client, event)
    /\ wait' = [wait EXCEPT !.remaining = IF event.kind = "timer" /\ @ > 0 THEN @ - 1 ELSE @,
                            !.serviced = TRUE]
    /\ Done("mprServiceEvents", 0, 0, "0")
    /\ UNCHANGED <<hostVars, endpointVars, mpr, vars>>

WaitReturn ==
    /\ wait.pc = "loop"
    /\ ~Waiting(client, wait)
    /\ client' = httpWaitLeaveConn(client, wait)
    /\ wait' = [wait EXCEPT !.pc = "done",
                            !.removed = wait.addedHandler /\ client.handler,
                            !.ret = httpWaitReturn(httpWaitLeaveConn(client, wait), wait)]
    /\ Done("httpWait", 0, wait.state, httpWaitReturn(httpWaitLeaveConn(client, wait), wait))
    /\ UNCHANGED <<hostVars, endpointVars, mpr, vars>>

InitWait ==
    /\ IdleConn
    /\ hosts = <<>>
    /\ lists = <<>>
    /\ routes = <<>>
    /\ endpoints = <<>>
    /\ connections = [items |-> <<>>, lock |-> FALSE]
    /\ conns = <<>>
    /\ cursor = [active |-> FALSE, endpoint |-> 0, next |-> 0]
    /\ \E state \in HTTP_STATE_BEGIN..HTTP_STATE_COMPLETE :
       \E async, handler, error, eof \in BOOLEAN :
           client = NewClient(state, async, handler, error, eof)
    /\ wait = NoWait
    /\ mpr = NoMpr
    /\ op = NoOp

NextWait ==
    \/ \E state \in HTTP_STATE_BEGIN..HTTP_STATE_COMPLETE : \E timeout \in -1..MaxTimeout :
           WaitEnter(state, timeout)
    \/ \E event \in ServiceEvents : WaitService(event)
    \/ WaitReturn

SpecWait == InitWait /\ [][NextWait]_allVars

Returned == wait.pc = "done"

(***************************************************************************)
(* C19: when httpWait has returned, a wait handler that it installed is    *)
(* removed and conn.async has the value it had on entry; a handler that    *)
(* was there on entry was not removed by httpWait.                         *)
(***************************************************************************)
C19_HandlerAndAsyncRestored ==
    Returned =>
        /\ wait.addedHandler => ~client.handler
        /\ client.async = wait.entryAsync
        /\ wait.entryHandler => ~wait.removed

(***************************************************************************)
(* C20: httpWait returns 0 only when the state reached the target without  *)
(* an error; MPR_ERR_TIMEOUT only when the socket is present, not at end   *)
(* of file and without error while the state is below the target; and      *)
(* MPR_ERR_CONNECTION whenever the wait ended below the target because the *)
(* socket was closed, at end of file or in error.                          *)
(***************************************************************************)
C20_ReturnTellsWhy ==
    Returned =>
        /\ wait.ret = "0" => (client.state >= wait.state /\ ~client.error)
        /\ wait.ret = MPR_ERR_TIMEOUT =>
               (client.sock /\ ~client.eof /\ ~client.error /\ client.state < wait.state)
        /\ (/\ wait.ret # MPR_ERR_BAD_STATE
            /\ client.state < wait.state
            /\ (~client.sock \/ client.eof \/ client.error)) =>
               wait.ret = MPR_ERR_CONNECTION

(***************************************************************************)
(* httpWait with time that passes: the timer of the Http service runs when *)
(* it is due and refreshes http->now, and httpWait itself keeps running.   *)
(***************************************************************************)
TimerEvent == WaitService([kind |-> "timer", state |-> 0, unhook |-> FALSE])

SpecWaitLive ==
    /\ InitWait
    /\ [][NextWait]_allVars
    /\ WF_allVars(TimerEvent)
    /\ WF_allVars(WaitReturn)

MaxHeaders == 2

\* a header line as a client may send it, without the optional white space
HdrLine(key, value) == key \o COLON \o value \o CRLF

LineLength == HdrLine(kContentLength, <<"5">>)
LineChunked == HdrLine(kTransferEncoding, vChunked)
LineKeepAlive == HdrLine(kConnection, vKeepAlive)
LineClose == HdrLine(kConnection, vClose)
LineMaxOne == HdrLine(kKeepAlive, <<"x", "=", "1">>)

\* header lines whose key holds one of the characters % < > / \, first or last
LeadingBadKeyLines == {HdrLine(<<c, "k">>, <<"v">>) : c \in BadKeyChars}
InnerBadKeyLines == {HdrLine(<<"k", c>>, <<"v">>) : c \in BadKeyChars}

HeaderPool ==
    {LineLength, LineChunked, LineKeepAlive, LineClose, LineMaxOne, HdrLine(kHost, <<"x">>)}
    \cup LeadingBadKeyLines \cup InnerBadKeyLines

HeaderLists == UNION {[1..n -> HeaderPool] : n \in 0..MaxHeaders}

RequestStart(protocol) == ReqLine(sGET, <<"/">>, protocol)

\* the bytes in front of the CRLFCRLF that ends the header block
BlockLength(req) == mprStrnstr(req, CRLFCRLF) - 1

\* requests whose header block is one byte under, at and one byte over the limit
PaddedRequests ==
    {RequestStart(sHTTP11) \o HdrLine(<<"k">>, Pad(HeaderSize + d - Len(RequestStart(sHTTP11)) - 2))
        \o CRLF : d \in {-1, 0, 1}}

HeaderRequests ==
    {RequestStart(p) \o Concat(hs) \o CRLF : p \in {sHTTP10, sHTTP11}, hs \in HeaderLists}
    \cup PaddedRequests

InitHeaders ==
    /\ wire \in {<<r>> : r \in HeaderRequests}
    /\ stream = Concat(wire)
    /\ conn \in {[InitConn EXCEPT !.errorsLatch = b] : b \in BOOLEAN}
    /\ rx = NoRx
    /\ q = EmptyQueue
    /\ pkt = "null"
    /\ hooks = NoHooks
    /\ done = <<>>
    /\ last = "init"
    /\ NoServer

\* the request arrives in one read and parseIncoming(conn, conn->input) runs
ParseRequest ==
    /\ last = "init"
    /\ Fed(parseIncoming([FeedMachine EXCEPT !.conn.input = MkPacket("conn", stream)], "input")
               @@ [done |-> done],
           "parseIncoming")
    /\ stream' = <<>>
    /\ UNCHANGED wire
    /\ UNCHANGED serverVars

NextHeaders == ParseRequest

SpecHeaders == InitHeaders /\ [][NextHeaders]_allVars

Parsed == last = "parseIncoming"

\* the request holds the header line
Carries(line) == mprStrnstr(wire[1], CRLF \o line) > 0

\* every header line of the request went through the loop of parseHeaders
AllParsed == Parsed /\ ~conn.error

(***************************************************************************)
(* C22: the header block is refused with 413 exactly when it is longer     *)
(* than limits.headerSize; a block of exactly limits.headerSize bytes is   *)
(* parsed.                                                                 *)
(***************************************************************************)
C22_HeaderSizeLimit ==
    Parsed =>
        /\ (HTTP_CODE_REQUEST_TOO_LARGE \in conn.raised) <=> (BlockLength(wire[1]) > HeaderSize)
        /\ BlockLength(wire[1]) = HeaderSize => conn.state = HTTP_STATE_PARSED

(***************************************************************************)
(* C23: a header whose key holds one of % < > / \ at any position raises   *)
(* 400 and is not added to the headers of the request.                     *)
(***************************************************************************)
C23_BadKeyAnywhere ==
    Parsed /\ BlockLength(wire[1]) < HeaderSize =>
        \A line \in LeadingBadKeyLines \cup InnerBadKeyLines :
            Carries(line) =>
                /\ HTTP_CODE_BAD_REQUEST \in conn.raised
                /\ HeaderIndex(rx.headers, TokenValue(line, COLON)) = 0

(***************************************************************************)
(* C24: a request with Content-Length and Transfer-Encoding: chunked, in   *)
(* either order, is framed as chunked when the headers are parsed.         *)
(***************************************************************************)
C24_ChunkedWins ==
    AllParsed /\ Carries(LineLength) /\ Carries(LineChunked) =>
        /\ "CHUNKED" \in rx.flags
        /\ rx.remainingContent = MAXINT

(***************************************************************************)
(* C25: an HTTP/1.0 request ends with keepAliveCount = 0 when it has no    *)
(* Connection: keep-alive header, and with the keep-alive count the        *)
(* connection had before when it has one.                                  *)
(***************************************************************************)
C25_OldProtocolKeepAlive ==
    AllParsed /\ conn.http10 /\ ~Carries(LineClose) /\ ~Carries(LineMaxOne) =>
        conn.keepAliveCount = IF Carries(LineKeepAlive) THEN InitConn.keepAliveCount ELSE 0

(***************************************************************************)
(* C26: a request with Connection: close ends with keepAliveCount = -1,    *)
(* under HTTP/1.0 and under HTTP/1.1.                                      *)
(***************************************************************************)
C26_CloseGivesMinusOne ==
    AllParsed /\ Carries(LineClose) => conn.keepAliveCount = -1

(***************************************************************************)
(* The Range header on its own: the value is built from pieces of the      *)
(* three forms and goes through the range case of parseHeaders.            *)
(***************************************************************************)
MaxRanges == 2
MaxOffset == 2

\* byte positions of one digit, and one of two digits
Offsets == 0..MaxOffset \cup {49}

RECURSIVE Decimal(_)
Decimal(n) ==
    IF n < 10 THEN <<DigitChars[n + 1]>>
    ELSE Decimal(n \div 10) \o <<DigitChars[(n % 10) + 1]>>

\* "-N", "N-" and "N-M"
RangePieces ==
    {[form |-> "suffix", n |-> n, m |-> 0] : n \in Offsets}
    \cup {[form |-> "from", n |-> n, m |-> 0] : n \in Offsets}
    \cup {[form |-> "span", n |-> n, m |-> m] : n \in Offsets, m \in Offsets}

RenderPiece(p) ==
    IF p.form = "suffix" THEN <<"-">> \o Decimal(p.n)
    ELSE IF p.form = "from" THEN Decimal(p.n) \o <<"-">>
    ELSE Decimal(p.n) \o <<"-">> \o Decimal(p.m)

RangeArgs == UNION {[1..k -> RangePieces] : k \in 0..MaxRanges}

RECURSIVE JoinPieces(_)
JoinPieces(ps) ==
    IF ps = <<>> THEN <<>>
    ELSE IF Len(ps) = 1 THEN RenderPiece(ps[1])
    ELSE RenderPiece(ps[1]) \o <<",">> \o JoinPieces(Tail(ps))

RenderRange(ps) == <<"b", "y", "t", "e", "s", "=">> \o JoinPieces(ps)

InitRange ==
    /\ op \in {[NoOp EXCEPT !.name = "init", !.arg = ps] : ps \in RangeArgs}
    /\ wire = <<>>
    /\ stream = RenderRange(op.arg)
    /\ conn \in {[InitConn EXCEPT !.errorsLatch = b] : b \in BOOLEAN}
    /\ rx = httpCreateRx
    /\ q = EmptyQueue
    /\ pkt = "null"
    /\ hooks = NoHooks
    /\ done = <<>>
    /\ last = "init"
    /\ hosts = <<>> /\ lists = <<>> /\ routes = <<>> /\ endpoints = <<>>
    /\ connections = [items |-> <<>>, lock |-> FALSE]
    /\ conns = <<>>
    /\ cursor = [active |-> FALSE, endpoint |-> 0, next |-> 0]
    /\ client = <<>>
    /\ wait = <<>>
    /\ mpr = NoMpr

\* parseHeaders reaches the header Range: <stream>
RangeHeader ==
    /\ op.name = "init"
    /\ Fed(ParseHeaderKey(FeedMachine, kRange, stream), "parseRange")
    /\ Done("parseRange", 0, op.arg, "0")
    /\ UNCHANGED <<wire, stream>>
    /\ UNCHANGED <<hosts, lists, routes, endpoints, connections, conns, cursor, client, wait, mpr>>

NextRange == RangeHeader

SpecRange == InitRange /\ [][NextRange]_allVars

Ranged == op.name = "parseRange"

Refused == HTTP_CODE_RANGE_NOT_SATISFIABLE \in conn.raised

\* the Range of a piece as stated: "-N" gives end = N
StatedRange(p) ==
    IF p.form = "suffix" THEN [start |-> -1, end |-> p.n]
    ELSE IF p.form = "from" THEN [start |-> p.n, end |-> -1]
    ELSE [start |-> p.n, end |-> p.m + 1]

\* "-N" gives end = N + 1, one beyond as for "N-M"
OneBeyondRange(p) ==
    IF p.form = "suffix" THEN [start |-> -1, end |-> p.n + 1]
    ELSE IF p.form = "from" THEN [start |-> p.n, end |-> -1]
    ELSE [start |-> p.n, end |-> p.m + 1]

\* rx->ranges holds one Range for each piece, in the order of the pieces
RangesAre(Expected(_)) ==
    /\ Len(rx.ranges) = Len(op.arg)
    /\ \A i \in 1..Len(op.arg) :
          /\ rx.ranges[i].start = Expected(op.arg[i]).start
          /\ rx.ranges[i].end = Expected(op.arg[i]).end
          /\ op.arg[i].form = "span" => rx.ranges[i].len = rx.ranges[i].end - rx.ranges[i].start

(***************************************************************************)
(* C27 as stated: each piece becomes one Range, in order; "-N" gives       *)
(* start = -1 and end = N, "N-" gives start = N and end = -1, "N-M" gives  *)
(* start = N, end = M + 1 and len = end - start.                           *)
(***************************************************************************)
C27_PiecesAsStated == Ranged => RangesAre(StatedRange)

(***************************************************************************)
(* C27 as amended: the same with "-N" giving start = -1 and end = N + 1.   *)
(***************************************************************************)
C27_PiecesOneBeyond == Ranged => RangesAre(OneBeyondRange)

\* "0-49,-2" was parsed into two ranges
C27_Witness ==
    /\ Ranged
    /\ op.arg = <<[form |-> "span", n |-> 0, m |-> 49], [form |-> "suffix", n |-> 2, m |-> 0]>>
    /\ rx.ranges = <<[start |-> 0, end |-> 50, len |-> 50], [start |-> -1, end |-> 3, len |-> 0]>>
    /\ ~Refused

\* the validation rules over the ranges of the pieces; guarded says whether the
\* overlap rule leaves out a next range whose start is negative
BreaksRule(rs, i, guarded) ==
    \/ rs[i].end # -1 /\ rs[i].end <= rs[i].start
    \/ rs[i].start < 0 /\ rs[i].end < 0
    \/ rs[i].start < 0 /\ i < Len(rs)
    \/ /\ i < Len(rs)
       /\ rs[i].end > rs[i + 1].start
       /\ guarded => rs[i + 1].start >= 0

PieceRanges == [i \in 1..Len(op.arg) |-> OneBeyondRange(op.arg[i])]

(***************************************************************************)
(* C28 as stated: a Range header is refused with 416 exactly when some     *)
(* range has its end set and end <= start, or both bounds negative, or a   *)
(* start < 0 and a successor, or an end greater than the start of the next *)
(* range; otherwise it is accepted and its ranges are on the Rx.           *)
(***************************************************************************)
C28_RulesAsStated ==
    Ranged /\ op.arg # <<>> =>
        /\ Refused <=> \E i \in 1..Len(op.arg) : BreaksRule(PieceRanges, i, FALSE)
        /\ ~Refused => Len(rx.ranges) = Len(op.arg)

(***************************************************************************)
(* C28 as amended: the same, the last rule applying only when the start of *)
(* the next range is not negative.                                         *)
(***************************************************************************)
C28_RulesWithSuffixLast ==
    Ranged /\ op.arg # <<>> =>
        /\ Refused <=> \E i \in 1..Len(op.arg) : BreaksRule(PieceRanges, i, TRUE)
        /\ ~Refused => Len(rx.ranges) = Len(op.arg)

\* "0-1,-2" is accepted: the end of the first range is over the start -1 of the last
C28_Witness ==
    /\ Ranged
    /\ op.arg = <<[form |-> "span", n |-> 0, m |-> 1], [form |-> "suffix", n |-> 2, m |-> 0]>>
    /\ ~Refused
    /\ Len(rx.ranges) = 2
    /\ rx.ranges[1].end > rx.ranges[2].start

(***************************************************************************)
(* Challenges on a client connection: each response carries one            *)
(* WWW-Authenticate header; the connection stays, the Rx is new for every  *)
(* response.                                                               *)
(***************************************************************************)
MaxChallenges == 2

DirectiveSets ==
    {{}, {"realm"}, {"nonce"}, {"realm", "nonce"}, {"realm", "nonce", "qop"},
     {"realm", "nonce", "qop", "domain", "opaque", "algorithm"},
     {"realm", "nonce", "qop", "domain", "opaque", "algorithm", "stale"}}

Challenges == [scheme : {"Basic", "Digest"}, directives : DirectiveSets]

ChallengeSeqs == UNION {[1..k -> Challenges] : k \in 1..MaxChallenges}

DirectiveOrder == <<"realm", "nonce", "qop", "domain", "opaque", "algorithm", "stale">>

\* key="v", for the directives of the set from position i on
RECURSIVE RenderDirectives(_, _)
RenderDirectives(ds, i) ==
    IF i > Len(DirectiveOrder) THEN <<>>
    ELSE IF DirectiveOrder[i] \notin ds THEN RenderDirectives(ds, i + 1)
    ELSE AuthKey[DirectiveOrder[i]] \o <<"=", "\"", "v", "\"">>
         \o (IF \E j \in (i + 1)..Len(DirectiveOrder) : DirectiveOrder[j] \in ds
             THEN <<",", " ">> ELSE <<>>)
         \o RenderDirectives(ds, i + 1)

RenderScheme(scheme) ==
    IF scheme = "Basic" THEN <<"B", "a", "s", "i", "c">> ELSE <<"D", "i", "g", "e", "s", "t">>

RenderChallenge(c) == RenderScheme(c.scheme) \o SP \o RenderDirectives(c.directives, 1)

InitAuth ==
    /\ op \in {[NoOp EXCEPT !.name = "init", !.arg = cs] : cs \in ChallengeSeqs}
    /\ wire = <<>>
    /\ stream = <<>>
    /\ conn \in {[InitConn EXCEPT !.errorsLatch = b] : b \in BOOLEAN}
    /\ rx = NoRx
    /\ q = EmptyQueue
    /\ pkt = "null"
    /\ hooks = NoHooks
    /\ done = <<>>
    /\ last = "init"
    /\ hosts = <<>> /\ lists = <<>> /\ routes = <<>> /\ endpoints = <<>>
    /\ connections = [items |-> <<>>, lock |-> FALSE]
    /\ conns = <<>>
    /\ cursor = [active |-> FALSE, endpoint |-> 0, next |-> 0]
    /\ client = <<>>
    /\ wait = <<>>
    /\ mpr = NoMpr

\* the connection when the next response starts: a new Rx, no error yet
NextResponse(m) ==
    [m EXCEPT !.rx = httpCreateRx, !.conn.error = FALSE, !.conn.raised = {}]

ChallengeParsed(m) ==
    /\ Fed(m, "parseAuthenticate")
    /\ op' = [op EXCEPT !.name = "parseAuthenticate", !.on = @ + 1,
                        !.ret = IF HTTP_CODE_BAD_REQUEST \in m.conn.raised THEN "400" ELSE "0"]

\* parseHeaders reaches the WWW-Authenticate header of the next response
ReceiveChallenge ==
    /\ op.on < Len(op.arg)
    /\ ChallengeParsed(ParseHeaderKey(NextResponse(FeedMachine), kWwwAuthenticate,
                                      RenderChallenge(op.arg[op.on + 1])))
    /\ stream' = RenderChallenge(op.arg[op.on + 1])
    /\ UNCHANGED wire
    /\ UNCHANGED <<hosts, lists, routes, endpoints, connections, conns, cursor, client, wait, mpr>>

NextAuth == ReceiveChallenge

SpecAuth == InitAuth /\ [][NextAuth]_allVars

\* the rule of the scheme over the directives the challenge carries
SatisfiesRule(c) ==
    IF c.scheme = "Basic" THEN "realm" \in c.directives
    ELSE /\ {"realm", "nonce"} \subseteq c.directives
         /\ "qop" \in c.directives =>
                {"domain", "opaque", "algorithm", "stale"} \subseteq c.directives

(***************************************************************************)
(* C29: every challenge of a sequence of responses on one connection is    *)
(* accepted exactly when its own directives satisfy the rule of its        *)
(* scheme, and is refused with 400 otherwise.                              *)
(***************************************************************************)
C29_ChallengeJudgedAlone ==
    op.name = "parseAuthenticate" => (op.ret = "0" <=> SatisfiesRule(op.arg[op.on]))

\* the same for the first challenge on the connection
FirstChallengeJudgedAlone ==
    op.name = "parseAuthenticate" /\ op.on = 1 => (op.ret = "0" <=> SatisfiesRule(op.arg[1]))

(***************************************************************************)
(* Basic credentials: the client formats the Authorization header, the     *)
(* header parser of the server splits it and httpBasicParse decodes it.    *)
(***************************************************************************)
MaxName == 2
MaxPassword == 2

MPR_ERR_BAD_FORMAT == "MPR_ERR_BAD_FORMAT"

\* the characters with the codes 32 .. 126
AsciiChars ==
    <<" ", "!", "\"", "#", "$", "%", "&", "'", "(", ")", "*", "+", ",", "-", ".", "/",
      "0", "1", "2", "3", "4", "5", "6", "7", "8", "9", ":", ";", "<", "=", ">", "?",
      "@", "A", "B", "C", "D", "E", "F", "G", "H", "I", "J", "K", "L", "M", "N", "O",
      "P", "Q", "R", "S", "T", "U", "V", "W", "X", "Y", "Z", "[", "\\", "]", "^", "_",
      "BACKQUOTE", "a", "b", "c", "d", "e", "f", "g", "h", "i", "j", "k", "l", "m", "n", "o",
      "p", "q", "r", "s", "t", "u", "v", "w", "x", "y", "z", "{", "|", "}", "~">>

CharCode(c) == IndexIn(AsciiChars, c) + 31

CodeChar(n) == IF n - 31 \in 1..Len(AsciiChars) THEN AsciiChars[n - 31] ELSE "NUL"

Base64Chars == UpperChars \o LowerChars \o DigitChars \o <<"+", "/">>

\* the first k of the four 6-bit digits of the 24-bit number n
Sextets(n, k) == [i \in 1..k |-> Base64Chars[((n \div (64 ^ (4 - i))) % 64) + 1]]

\* mprEncode64: three bytes give four characters, the rest is padded with '='
RECURSIVE mprEncode64(_)
mprEncode64(s) ==
    IF s = <<>> THEN <<>>
    ELSE IF Len(s) = 1 THEN Sextets(CharCode(s[1]) * 65536, 2) \o <<"=", "=">>
    ELSE IF Len(s) = 2
         THEN Sextets(CharCode(s[1]) * 65536 + CharCode(s[2]) * 256, 3) \o <<"=">>
    ELSE Sextets(CharCode(s[1]) * 65536 + CharCode(s[2]) * 256 + CharCode(s[3]), 4)
         \o mprEncode64(Drop(s, 3))

\* the 24-bit number of a group of up to four characters, from position j on
RECURSIVE BitBuf(_, _)
BitBuf(g, j) ==
    IF j > Len(g) THEN 0
    ELSE (IndexIn(Base64Chars, g[j]) - 1) * (64 ^ (4 - j)) + BitBuf(g, j + 1)

\* a group of i characters gives i - 1 bytes
GroupBytes(g) == [j \in 1..(Len(g) - 1) |-> CodeChar((BitBuf(g, 1) \div (256 ^ (3 - j))) % 256)]

RECURSIVE DecodeGroups(_)
DecodeGroups(t) ==
    IF t = <<>> THEN <<>>
    ELSE GroupBytes(SubSeq(t, 1, Min(4, Len(t)))) \o DecodeGroups(Drop(t, 4))

\* mprDecode64: the characters up to the first '=' are decoded; null when one of
\* them is not in the alphabet
mprDecode64(s) ==
    IF \E i \in 1..Len(TokenOf(s, {"="})) : IndexIn(Base64Chars, s[i]) = 0 THEN Null
    ELSE DecodeGroups(TokenOf(s, {"="}))

\* sfmt("%s:%s", username, password)
BasicPair(username, password) == username \o COLON \o password

\* httpBasicSetHeaders: the value of the Authorization header
httpBasicSetHeaders(username, password) ==
    sBasic \o SP \o mprEncode64(BasicPair(username, password))

\* mutant: the credentials are split at their last ':'
BasicColonLast(decoded) ==
    IF \E i \in 1..Len(decoded) : decoded[i] = ":"
    THEN CHOOSE i \in 1..Len(decoded) :
             decoded[i] = ":" /\ \A j \in (i + 1)..Len(decoded) : decoded[j] # ":"
    ELSE 0

\* strchr(decoded, ':')
BasicColon(decoded) == strpbrk(decoded, {":"})

\* username and password out of the decoded credentials; sclone(NULL) is ""
BasicSplit(decoded) ==
    IF BasicColon(decoded) > 0
    THEN <<SubSeq(decoded, 1, BasicColon(decoded) - 1), Drop(decoded, BasicColon(decoded))>>
    ELSE <<decoded, <<>>>>

\* httpBasicParse: the code returned, *username and *password
httpBasicParse(r) ==
    IF r.authDetails = Null THEN [ret |-> "0", username |-> Null, password |-> Null]
    ELSE IF mprDecode64(r.authDetails) = Null
         THEN [ret |-> MPR_ERR_BAD_FORMAT, username |-> Null, password |-> Null]
    ELSE [ret |-> "0", username |-> BasicSplit(mprDecode64(r.authDetails))[1],
          password |-> BasicSplit(mprDecode64(r.authDetails))[2]]

UserChars == {"a", "~"}
PassChars == {"a", ":", " "}

Names == UNION {[1..k -> UserChars] : k \in 0..MaxName}
Passwords == UNION {[1..k -> PassChars] : k \in 0..MaxPassword}

InitBasic ==
    /\ op \in {[NoOp EXCEPT !.name = "init", !.arg = [username |-> u, password |-> p]] :
                  u \in Names, p \in Passwords}
    /\ wire = <<>>
    /\ stream = <<>>
    /\ conn \in {[InitConn EXCEPT !.errorsLatch = b] : b \in BOOLEAN}
    /\ rx = httpCreateRx
    /\ q = EmptyQueue
    /\ pkt = "null"
    /\ hooks = NoHooks
    /\ done = <<>>
    /\ last = "init"
    /\ hosts = <<>> /\ lists = <<>> /\ routes = <<>> /\ endpoints = <<>>
    /\ connections = [items |-> <<>>, lock |-> FALSE]
    /\ conns = <<>>
    /\ cursor = [active |-> FALSE, endpoint |-> 0, next |-> 0]
    /\ client = <<>>
    /\ wait = <<>>
    /\ mpr = NoMpr

\* the client adds the Authorization header and sends it
BasicSetHeaders ==
    /\ op.name = "init"
    /\ stream' = httpBasicSetHeaders(op.arg.username, op.arg.password)
    /\ op' = [op EXCEPT !.name = "httpBasicSetHeaders"]
    /\ UNCHANGED <<wire, conn, rx, q, pkt, hooks, done, last>>
    /\ UNCHANGED <<hosts, lists, routes, endpoints, connections, conns, cursor, client, wait, mpr>>

\* parseHeaders of the server reaches the header
BasicHeaderParsed ==
    /\ op.name = "httpBasicSetHeaders"
    /\ Fed(ParseHeaderKey(FeedMachine, kAuthorization, stream), "parseHeaders")
    /\ op' = [op EXCEPT !.name = "parseHeaders"]
    /\ UNCHANGED <<wire, stream>>
    /\ UNCHANGED <<hosts, lists, routes, endpoints, connections, conns, cursor, client, wait, mpr>>

\* the server calls httpBasicParse(conn, &username, &password)
BasicParse ==
    /\ op.name = "parseHeaders"
    /\ op' = [op EXCEPT !.name = "httpBasicParse", !.ret = httpBasicParse(rx)]
    /\ UNCHANGED vars
    /\ UNCHANGED <<hosts, lists, routes, endpoints, connections, conns, cursor, client, wait, mpr>>

NextBasic == BasicSetHeaders \/ BasicHeaderParsed \/ BasicParse

SpecBasic == InitBasic /\ [][NextBasic]_allVars

(***************************************************************************)
(* C30: for a username without ':' and any password, the header that       *)
(* httpBasicSetHeaders produces is parsed by the header parser and         *)
(* httpBasicParse into exactly that username and that password.            *)
(***************************************************************************)
C30_BasicRoundTrip ==
    op.name = "httpBasicParse" =>
        /\ op.ret.ret = "0"
        /\ op.ret.username = op.arg.username
        /\ op.ret.password = op.arg.password

\* a password with two ':' came back, through the header "basic fjo6Og=="
C30_Witness ==
    /\ op.name = "httpBasicParse"
    /\ op.arg = [username |-> <<"~">>, password |-> <<":", ":">>]
    /\ rx.authType = sBasic
    /\ rx.authDetails = <<"f", "j", "o", "6", "O", "g", "=", "=">>
    /\ op.ret.password = <<":", ":">>

(***************************************************************************)
(* analyseContent at the end of a request: the split of a packet that      *)
(* holds more than the request still expects.                              *)
(***************************************************************************)
\* processContent is about to hand the packet to analyseContent
Analysing ==
    /\ Running /\ conn.state = HTTP_STATE_CONTENT
    /\ pkt = "input" /\ ~conn.input.null
    /\ ~(conn.complete \/ conn.connError \/ rx.remainingContent <= 0)

\* remaining of analyseContent: the bytes the body still expects
Remaining ==
    IF "CHUNKED" \in rx.flags THEN getChunkPacketSize(Machine, conn.input.content).ret
    ELSE rx.remainingContent

\* the packet holds more bytes than remain
PastBoundary == Analysing /\ Remaining > 0 /\ Len(conn.input.content) > Remaining

\* the bytes of a request that follow its header block
PayloadOf(req) ==
    IF req = ReqChunked THEN ChunkPayload
    ELSE SubSeq(req, mprStrnstr(req, CRLFCRLF) + 4, Len(req))

\* s is t with some of its bytes left out
RECURSIVE IsSubsequence(_, _)
IsSubsequence(s, t) ==
    IF s = <<>> THEN TRUE
    ELSE IF t = <<>> THEN FALSE
    ELSE IF Head(s) = Head(t) THEN IsSubsequence(Tail(s), Tail(t))
    ELSE IsSubsequence(s, Tail(t))

\* the receive queue holds body bytes of the current request only, in order
OwnBytesOnly ==
    (rx.exists /\ Len(done) < Len(wire)) => IsSubsequence(q.data, PayloadOf(CurrentRequest))

StateSteps == {"parseIncoming", "processParsed", "processContent", "processRunning",
               "processCompletion"}

\* a write blocked during the step just taken
WriteBlockedInStep == last' \in StateSteps /\ ~conn.writeBlocked /\ conn'.writeBlocked

\* C32: a step of httpProcess during which a write blocks leaves writeBlocked
\* set and canProceed cleared, so that the loop of httpProcess runs no
\* further step in the same invocation.
C32_WriteBlockedSuspends ==
    [][WriteBlockedInStep => (conn'.writeBlocked /\ ~conn'.canProceed)]_vars

(***************************************************************************)
(* processParsed on every connection that can enter it: the step of PARSED *)
(* with the flags of the connection and the expected body drawn from their *)
(* values.                                                                 *)
(***************************************************************************)
\* the body lengths tried: none, one byte, up to the close of an HTTP/1.0 body
ParsedRemaining == {0, 1, MAXINT}

InitParsed ==
    /\ wire = <<ReqPost>>
    /\ stream = <<>>
    /\ conn \in {[InitConn EXCEPT !.state = HTTP_STATE_PARSED, !.advancing = TRUE,
                                  !.canProceed = TRUE, !.errorsLatch = latch,
                                  !.abortPipeline = abort, !.error = error,
                                  !.writeComplete = written] :
                    latch, abort, error, written \in BOOLEAN}
    /\ rx \in {[httpCreateRx EXCEPT !.remainingContent = n] : n \in ParsedRemaining}
    /\ q = EmptyQueue
    /\ pkt = "input"
    /\ hooks = NoHooks
    /\ done = <<>>
    /\ last = "init"
    /\ NoServer

NextParsed == ProcessParsedStep

SpecParsed == InitParsed /\ [][NextParsed]_allVars

\* the hooks invoked by the step just taken
Invoked(hook) == hooks'[hook] - hooks[hook]

\* 1 when the condition holds, else 0
Times(cond) == IF cond THEN 1 ELSE 0

\* C33 as stated: in the PARSED step the start hook is invoked unless
\* abortPipeline is set, one writable event is issued exactly when the
\* pipeline is not aborted and the request expects no body, has no error and
\* its write is not complete; the state becomes CONTENT and the step can
\* proceed.
C33_WritableWithoutBody ==
    [][last' = "processParsed"
          => /\ Invoked("start") = Times(~conn.abortPipeline)
             /\ Invoked("writable") = Times(/\ ~conn.abortPipeline
                                            /\ rx.remainingContent = 0
                                            /\ ~conn'.error /\ ~conn'.writeComplete)
             /\ conn'.state = HTTP_STATE_CONTENT /\ conn'.canProceed]_vars

\* C33 amended: the writable event is issued exactly when the request still
\* expects body bytes (remainingContent > 0), has no error and its write is
\* not complete; the rest as stated.
C33_WritableWithBody ==
    [][last' = "processParsed"
          => /\ Invoked("start") = Times(~conn.abortPipeline)
             /\ Invoked("writable") = Times(/\ ~conn.abortPipeline
                                            /\ rx.remainingContent > 0
                                            /\ ~conn'.error /\ ~conn'.writeComplete)
             /\ conn'.state = HTTP_STATE_CONTENT /\ conn'.canProceed]_vars

\* the PARSED step of a request that expects a body issued a writable event
C33_Witness ==
    /\ last = "processParsed" /\ conn.state = HTTP_STATE_CONTENT
    /\ rx.remainingContent > 0 /\ hooks.start = 1 /\ hooks.writable = 1

(***************************************************************************)
(* The hooks of the handler while the pipeline is aborted.                 *)
(***************************************************************************)
\* the step just taken invoked none of startPipeline, writable, processPipeline
\* (the counts of a request start again at 0 when its Rx is destroyed)
NoPipelineHook ==
    /\ hooks'.start <= hooks.start
    /\ hooks'.writable <= hooks.writable
    /\ hooks'.process <= hooks.process

\* C34: a step of httpProcess entered with abortPipeline set invokes none of
\* the hooks startPipeline, writable and processPipeline, whatever the state
\* of the connection.
C34_AbortedInvokesNoHook ==
    [][(last' \in StateSteps /\ conn.abortPipeline) => NoPipelineHook]_vars

\* the RUNNING step of a request whose pipeline was aborted by its start hook
C34_Witness ==
    /\ last = "processRunning" /\ conn.abortPipeline
    /\ conn.state = HTTP_STATE_COMPLETE /\ hooks.start = 1 /\ hooks.process = 0

(***************************************************************************)
(* acceptConn: the readable event of the listen socket.  It runs on the    *)
(* thread of the event service; the dispatchers run their events on other  *)
(* threads, so the model shows acceptConn in two steps, up to              *)
(* mprSetEventServiceSleep and then mprQueueEvent, with the dispatchers    *)
(* free to run in between.                                                 *)
(***************************************************************************)
MaxAccepts == 3

MPR_WAIT_NEW_DISPATCHER == "MPR_WAIT_NEW_DISPATCHER"
MPR_SOCKET_READABLE == "MPR_SOCKET_READABLE"
HTTP_TIMER_PERIOD == "HTTP_TIMER_PERIOD"

Dispatcher(name) == [name |-> name, events |-> <<>>]

mprCreateDispatcher(s, name) == [s EXCEPT !.dispatchers = Append(@, Dispatcher(name))]

\* the dispatcher acceptConn always takes from mprGetDispatcher
AcceptDispatcherCurrent(s) == s.current

\* the dispatcher acceptConn chooses, the new one being the last created
AcceptDispatcher(s) ==
    IF MPR_WAIT_NEW_DISPATCHER \in s.handler.flags THEN Len(s.dispatchers)
    ELSE IF s.handler.dispatcher # 0 THEN s.handler.dispatcher
    ELSE s.current

\* mprCreateEvent with MPR_EVENT_DONT_QUEUE and the fields acceptConn sets
AcceptEvent(s, endpoint, sock) ==
    [name |-> "AcceptConn", proc |-> "httpAcceptConn", data |-> endpoint,
     mask |-> s.handler.presentMask, sock |-> sock, handler |-> s.handler,
     dispatcher |-> AcceptDispatcher(s)]

mprSetEventServiceSleep(s, delay) == [s EXCEPT !.sleep = delay]

mprQueueEvent(s, dispatcher, event) ==
    [s EXCEPT !.dispatchers[dispatcher].events = Append(@, event)]

\* acceptConn from the accepted socket to mprSetEventServiceSleep
AcceptPrepare(s, endpoint, sock) ==
    mprSetEventServiceSleep([s EXCEPT !.event = AcceptEvent(s, endpoint, sock)],
                            HTTP_TIMER_PERIOD)

acceptConn(s, endpoint, sock) ==
    IF sock = 0 THEN s
    ELSE IF MPR_WAIT_NEW_DISPATCHER \in s.handler.flags
    THEN AcceptPrepare(mprCreateDispatcher(s, "IO"), endpoint, sock)
    ELSE AcceptPrepare(s, endpoint, sock)

\* the listen handlers: with or without the flag, with or without a dispatcher
ListenHandlers ==
    {[flags |-> f, dispatcher |-> d, presentMask |-> MPR_SOCKET_READABLE] :
        f \in {{}, {MPR_WAIT_NEW_DISPATCHER}}, d \in {0, 2}}

InitAccept ==
    /\ IdleConn
    /\ hosts = <<NamedHost(<<"a">>)>>
    /\ lists = <<>>
    /\ routes = <<>>
    /\ endpoints = <<[NewEndpoint(80) EXCEPT !.hosts = <<1>>, !.sock = "listening"]>>
    /\ connections = [items |-> <<>>, lock |-> FALSE]
    /\ conns = <<>>
    /\ cursor = [active |-> FALSE, endpoint |-> 0, next |-> 0]
    /\ client = <<>>
    /\ wait = <<>>
    /\ mpr \in {[NoMpr EXCEPT !.dispatchers = <<Dispatcher("main"), Dispatcher("endpoint")>>,
                              !.current = 1, !.handler = h] : h \in ListenHandlers}
    /\ op = NoOp

\* mprAcceptSocket returns no socket: acceptConn returns
AcceptFailed(e) ==
    /\ mpr.pc = "idle" /\ mpr.accepts < MaxAccepts
    /\ endpoints[e].sock = "listening"
    /\ mpr' = [acceptConn(mpr, e, 0) EXCEPT !.accepts = @ + 1]
    /\ Done("acceptConn", e, 0, "0")
    /\ UNCHANGED <<hostVars, endpointVars, waitVars, vars>>

\* mprAcceptSocket returns a socket: acceptConn up to mprSetEventServiceSleep
AcceptSocket(e) ==
    /\ mpr.pc = "idle" /\ mpr.accepts < MaxAccepts
    /\ endpoints[e].sock = "listening"
    /\ mpr' = [acceptConn(mpr, e, mpr.sockets + 1) EXCEPT !.accepts = @ + 1,
                  !.sockets = @ + 1, !.pc = "queue"]
    /\ Done("acceptConn", e, mpr.sockets + 1, "0")
    /\ UNCHANGED <<hostVars, endpointVars, waitVars, vars>>

\* the last statement of acceptConn
AcceptQueue ==
    /\ mpr.pc = "queue"
    /\ mpr' = [mprQueueEvent(mpr, mpr.event.dispatcher, mpr.event) EXCEPT
                  !.pc = "idle", !.event = NoEvent]
    /\ Done("mprQueueEvent", mpr.event.data, mpr.event.sock, "0")
    /\ UNCHANGED <<hostVars, endpointVars, waitVars, vars>>

\* a dispatcher runs its first event: the connection of the socket is created
RunEvent(d) ==
    /\ mpr.dispatchers[d].events # <<>>
    /\ ~connections.lock
    /\ mpr' = [mpr EXCEPT !.dispatchers[d].events = Tail(@)]
    /\ conns' = Append(conns, NewConn(Head(mpr.dispatchers[d].events).data))
    /\ connections' = [connections EXCEPT !.items = Append(@, Len(conns) + 1)]
    /\ Done("httpAcceptConn", Head(mpr.dispatchers[d].events).data, Len(conns) + 1, "0")
    /\ UNCHANGED <<endpoints, cursor, hostVars, waitVars, vars>>

\* the event service has slept and computes its next sleep afresh
ServiceSlept ==
    /\ mpr.pc = "idle" /\ mpr.sleep # "none"
    /\ mpr' = [mpr EXCEPT !.sleep = "none"]
    /\ Done("mprServiceEvents", 0, 0, "0")
    /\ UNCHANGED <<hostVars, endpointVars, waitVars, vars>>

NextAccept ==
    \/ \E e \in DOMAIN endpoints : AcceptFailed(e)
    \/ \E e \in DOMAIN endpoints : AcceptSocket(e)
    \/ AcceptQueue
    \/ \E d \in DOMAIN mpr.dispatchers : RunEvent(d)
    \/ ServiceSlept

SpecAccept == InitAccept /\ [][NextAccept]_allVars

\* the events queued on the dispatchers
RECURSIVE QueuedFrom(_, _)
QueuedFrom(s, d) ==
    IF d > Len(s.dispatchers) THEN 0
    ELSE Len(s.dispatchers[d].events) + QueuedFrom(s, d + 1)

\* the dispatcher the claim names for the event of the next accept: a
\* dispatcher that does not exist yet, the one of the handler, or the current one
NamedDispatcher ==
    IF MPR_WAIT_NEW_DISPATCHER \in mpr.handler.flags THEN Len(mpr.dispatchers) + 1
    ELSE IF mpr.handler.dispatcher # 0 THEN mpr.handler.dispatcher
    ELSE mpr.current

\* every dispatcher keeps its queue but one, which gains the event
OnlyGains(d, event) ==
    /\ DOMAIN mpr'.dispatchers = DOMAIN mpr.dispatchers
    /\ \A i \in DOMAIN mpr.dispatchers :
          mpr'.dispatchers[i].events =
              IF i = d THEN Append(mpr.dispatchers[i].events, event)
              ELSE mpr.dispatchers[i].events

\* C35: a successful accept makes one AcceptConn event that carries the
\* accepted socket for the dispatcher the handler calls for (a new one with
\* MPR_WAIT_NEW_DISPATCHER, else the handler's, else the current one), the
\* sleep of the event service is HTTP_TIMER_PERIOD when the event is queued,
\* the event is queued once on that dispatcher and on no other, and a failed
\* accept queues nothing: the sockets accepted are as many as the events
\* queued, run or about to be queued.
C35_OneEventPerAccept ==
    [][/\ (op'.name = "acceptConn" /\ op'.arg # 0)
            => /\ mpr'.event.name = "AcceptConn" /\ mpr'.event.sock = op'.arg
               /\ mpr'.event.dispatcher = NamedDispatcher
               /\ mpr'.event.dispatcher \in DOMAIN mpr'.dispatchers
               /\ mpr'.sleep = HTTP_TIMER_PERIOD
               /\ QueuedFrom(mpr', 1) = QueuedFrom(mpr, 1)
       /\ op'.name = "mprQueueEvent"
            => /\ mpr.sleep = HTTP_TIMER_PERIOD
               /\ OnlyGains(mpr.event.dispatcher, mpr.event)
       /\ (op'.name = "acceptConn" /\ op'.arg = 0)
            => (mpr'.dispatchers = mpr.dispatchers /\ mpr'.pc = "idle")
       /\ mpr'.sockets = QueuedFrom(mpr', 1) + Len(conns') + (IF mpr'.pc = "queue" THEN 1 ELSE 0)
      ]_allVars

\* an accepted socket waits in an AcceptConn event on a dispatcher made for it
C35_Witness ==
    /\ mpr.pc = "idle" /\ Len(mpr.dispatchers) = 3
    /\ mpr.dispatchers[3].name = "IO" /\ Len(mpr.dispatchers[3].events) = 1
    /\ mpr.dispatchers[3].events[1].sock = 1
    /\ mpr.sleep = HTTP_TIMER_PERIOD

(***************************************************************************)
(* The validations of the limits on open requests, over the readable       *)
(* events of a connection: each event appends some bytes of the stream to  *)
(* conn->input and runs httpProcess to its return.                         *)
(***************************************************************************)
\* the calls of httpValidateLimits so far
Validations == IF op.name = "httpProcess" THEN op.arg ELSE NoValidations

ReadValidated(n) ==
    /\ n \in 1..Len(stream)
    /\ Fed(FeedEvent([FeedMachine EXCEPT !.validated = Validations], SubSeq(stream, 1, n)),
           "httpProcess")
    /\ op' = [NoOp EXCEPT !.name = "httpProcess",
                 !.arg = FeedEvent([FeedMachine EXCEPT !.validated = Validations],
                                   SubSeq(stream, 1, n)).validated]
    /\ stream' = Drop(stream, n)
    /\ UNCHANGED wire
    /\ UNCHANGED <<hosts, lists, routes, endpoints, connections, conns, cursor, client, wait, mpr>>

InitValidate == InitFeed

\* a readable event brings one byte or all the bytes the client has sent
ReadSizes == {1, Len(stream)}

NextValidate == \E n \in ReadSizes : ReadValidated(n)

SpecValidate == InitValidate /\ [][NextValidate]_allVars

\* 1 while a request is in progress
OpenRequests == IF rx.exists THEN 1 ELSE 0

\* C36: every request of the connection is validated once with
\* HTTP_VALIDATE_OPEN_REQUEST and, when its Rx is destroyed, once with
\* HTTP_VALIDATE_CLOSE_REQUEST: the close validations are as many as the
\* requests completed and the open validations as many as the requests
\* completed or in progress, whatever the number of readable events.
C36_OneValidationPerRequest ==
    /\ Validations.close = Len(done)
    /\ Validations.open = Len(done) + OpenRequests

(***************************************************************************)
(* httpCloseRx while the body is being received.                           *)
(***************************************************************************)
\* the call of httpProcess made by httpCloseRx returns
CloseReturns == conn.closed /\ conn.advancing /\ ~conn'.advancing

\* C37: when the socket closes before the end of the body, the call of
\* httpProcess that httpCloseRx makes does not return with the connection
\* still in CONTENT: connError is set and the request has been taken to
\* COMPLETE.
C37_CloseCompletesRequest ==
    [][(CloseReturns /\ ~rx.eof)
          => (conn'.connError /\ conn'.state # HTTP_STATE_CONTENT)]_vars

(***************************************************************************)
(* Termination of httpProcess.  The loop is deterministic code on one      *)
(* thread: an iteration that leaves the connection as it found it, with    *)
(* canProceed still set, is followed by the same iteration for ever.  The  *)
(* invocation returns exactly when every iteration changes the state.      *)
(***************************************************************************)
HttpProcessStep ==
    \/ ParseIncomingStep
    \/ ProcessParsedStep
    \/ ProcessContentStep
    \/ ProcessRunningStep
    \/ ProcessCompletionStep
    \/ ProcessReturn

\* requests with a body, on their own
InitTerminate ==
    /\ Init
    /\ wire \in {<<ReqPost>>, <<ReqChunked>>}

\* the readable events bring one byte or all the bytes sent
NextTerminate ==
    \/ \E n \in ReadSizes : ReadEvent(n)
    \/ HttpProcessStep

\* the step that produced res changes the state of the model
Changed(res, name) ==
    \/ [res.conn EXCEPT !.canProceed = res.ret] # conn
    \/ res.rx # rx \/ res.q # q \/ res.hooks # hooks
    \/ pkt # "input" \/ last # name

\* the next iteration makes progress, that is ENABLED <<HttpProcessStep>>_vars
\* written out: the steps of PARSED, RUNNING and COMPLETE and the return
\* always change the state (conn.state, a hook count, done, conn.advancing)
CanStep ==
    \/ /\ Running
       /\ \/ /\ conn.state \in {HTTP_STATE_BEGIN, HTTP_STATE_CONNECTED}
             /\ Changed(parseIncoming(Machine, pkt), "parseIncoming")
          \/ conn.state = HTTP_STATE_PARSED
          \/ /\ conn.state = HTTP_STATE_CONTENT
             /\ \E drain \in BOOLEAN :
                    Changed(processContent(Machine, pkt, drain), "processContent")
          \/ conn.state = HTTP_STATE_RUNNING
          \/ conn.state = HTTP_STATE_COMPLETE
    \/ conn.advancing /\ ~conn.canProceed

SpecTerminate == InitTerminate /\ [][NextTerminate]_vars

\* C38: every invocation of httpProcess returns: while httpProcess is inside
\* its loop (conn.advancing) the next iteration changes the state of the
\* connection or is the return; the loop never reaches an iteration that
\* repeats unchanged, in CONTENT with the request in error or elsewhere.
C38_HttpProcessReturns == conn.advancing => CanStep

\* the steps of the loop kept weakly fair, with ENABLED written out as CanStep
StepsFair == ([]<>~CanStep) \/ ([]<><<HttpProcessStep>>_vars)

SpecTerminateFair == SpecTerminate /\ StepsFair

\* under that fairness an invocation returns or reaches the repeating iteration
ReturnsOrRepeats == conn.advancing ~> (~conn.advancing \/ ~CanStep)

(***************************************************************************)
(* The value processRunning returns when it completes the request.         *)
(***************************************************************************)
\* C39: a RUNNING step that moves the connection to COMPLETE, abortPipeline
\* set on entry or not, reports that the machine can proceed, so that
\* processCompletion runs in the same invocation of httpProcess.
C39_CompletionProceeds ==
    [][(last' = "processRunning" /\ conn.state = HTTP_STATE_RUNNING
            /\ conn'.state = HTTP_STATE_COMPLETE)
          => conn'.canProceed]_vars


(***************************************************************************)
(* The conditional request headers.  A request carries one conditional     *)
(* header, spelled as clients send it or in lower case; it is parsed, and  *)
(* the handler then asks httpMatchModified and httpMatchEtag about a       *)
(* resource with a modification time and an entity tag.                    *)
(***************************************************************************)
MaxResourceTime == 3

cIfModifiedSince == <<"I", "f", "-", "M", "o", "d", "i", "f", "i", "e", "d", "-", "S", "i", "n", "c", "e">>
cIfUnmodifiedSince == <<"I", "f", "-", "U", "n", "m", "o", "d", "i", "f", "i", "e", "d", "-", "S", "i", "n", "c", "e">>
cIfMatch == <<"I", "f", "-", "M", "a", "t", "c", "h">>
cIfNoneMatch == <<"I", "f", "-", "N", "o", "n", "e", "-", "M", "a", "t", "c", "h">>
cIfRange == <<"I", "f", "-", "R", "a", "n", "g", "e">>

SinceKeys == {cIfModifiedSince, cIfUnmodifiedSince}
MatchKeys == {cIfMatch, cIfNoneMatch}
ConditionalKeys == SinceKeys \cup MatchKeys \cup {cIfRange}

\* dates: none, two dates, a date with a parameter, and no date at all
SinceValues == {<<"0">>, <<"1">>, <<"2">>, <<"2", ";", "x">>, <<"x">>}
EtagValues == {<<"a">>, <<"b">>, <<"a", ",", " ", "b">>, <<"a", ";", "b">>}
ResourceEtags == {<<"a">>, <<"b">>, <<"c">>}

ValuesOf(key) == IF key \in SinceKeys THEN SinceValues ELSE EtagValues

ConditionalRequest(key, value) == RequestStart(sHTTP11) \o HdrLine(key, value) \o CRLF

ConditionalRequests ==
    UNION {{ConditionalRequest(k, v) : v \in ValuesOf(k)}
           \cup {ConditionalRequest(mprStrLower(k), v) : v \in ValuesOf(k)} : k \in ConditionalKeys}

\* if (rx->etags == 0) return 1; if (requestedEtag == 0) return 0; then the list
httpMatchEtag(r, requestedEtag) ==
    IF r.etags = <<>> THEN 1
    ELSE IF requestedEtag = Null THEN 0
    ELSE IF \E i \in 1..Len(r.etags) : r.etags[i] = requestedEtag
         THEN (IF r.ifMatch THEN 0 ELSE 1)
         ELSE (IF r.ifMatch THEN 1 ELSE 0)

\* if (rx->since == 0) return 1; then the test in the sense of rx->ifModified
httpMatchModified(r, time) ==
    IF r.since = 0 THEN 1
    ELSE IF r.ifModified THEN (IF time > r.since THEN 0 ELSE 1)
    ELSE (IF time > r.since THEN 1 ELSE 0)

InitConditional ==
    /\ wire \in {<<r>> : r \in ConditionalRequests}
    /\ stream = Concat(wire)
    /\ conn \in {[InitConn EXCEPT !.errorsLatch = b] : b \in BOOLEAN}
    /\ rx = NoRx
    /\ q = EmptyQueue
    /\ pkt = "null"
    /\ hooks = NoHooks
    /\ done = <<>>
    /\ last = "init"
    /\ NoServer

\* the handler tests the request against a resource
MatchResource ==
    /\ last = "parseIncoming"
    /\ rx.exists
    /\ \E time \in 0..MaxResourceTime, etag \in ResourceEtags \cup {Null} :
          op' = [op EXCEPT !.name = "httpMatch",
                           !.arg = [time |-> time, etag |-> etag],
                           !.ret = [modified |-> httpMatchModified(rx, time),
                                    etag |-> httpMatchEtag(rx, etag)]]
    /\ last' = "httpMatch"
    /\ UNCHANGED <<wire, stream, conn, rx, q, pkt, hooks, done>>
    /\ UNCHANGED <<hostVars, endpointVars, waitVars, mpr>>

NextConditional == ParseRequest \/ MatchResource

SpecConditional == InitConditional /\ [][NextConditional]_allVars

\* the request carried the header, in either spelling, with the value
Received(key, value) ==
    wire[1] \in {ConditionalRequest(key, value), ConditionalRequest(mprStrLower(key), value)}

ReceivedKey(key) == \E v \in ValuesOf(key) : Received(key, v)

\* the value holds a date
ValidDate ==
    \E k \in SinceKeys, v \in SinceValues :
        Received(k, v) /\ mprParseTime(CutAtSemicolon(v)) > 0

\* the rx of a fresh connection that parsed the request
RxAfter(req) ==
    parseIncoming([conn |-> [InitConn EXCEPT !.errorsLatch = conn.errorsLatch,
                                             !.input = MkPacket("conn", req)],
                   rx |-> NoRx, q |-> EmptyQueue, hooks |-> NoHooks, keepAlive |-> 0,
                   ret |-> FALSE, validated |-> NoValidations, done |-> <<>>], "input").rx

\* the same request with the other directive of the pair
OtherOf(key) ==
    IF key = cIfModifiedSince THEN cIfUnmodifiedSince
    ELSE IF key = cIfUnmodifiedSince THEN cIfModifiedSince
    ELSE IF key = cIfMatch THEN cIfNoneMatch
    ELSE cIfMatch

\* the answers the other directive of the pair gets for the same value and resource
OtherRx ==
    RxAfter(CHOOSE r \in ConditionalRequests :
                \E k \in SinceKeys \cup MatchKeys : \E v \in ValuesOf(k) :
                    Received(k, v) /\ r = ConditionalRequest(OtherOf(k), v))

Matched == last = "httpMatch" /\ ~conn.error

(***************************************************************************)
(* C40: after If-Modified-Since with a valid date rx.ifModified is true    *)
(* and after If-Unmodified-Since it is false; after If-Match rx.ifMatch is *)
(* true and after If-None-Match it is false; httpMatchModified and         *)
(* httpMatchEtag give opposite answers for the two directives of a pair on *)
(* the same resource.                                                      *)
(***************************************************************************)
C40_ConditionalDirectives ==
    Matched =>
        /\ (ReceivedKey(cIfModifiedSince) /\ ValidDate) => rx.ifModified
        /\ (ReceivedKey(cIfUnmodifiedSince) /\ ValidDate) => ~rx.ifModified
        /\ ReceivedKey(cIfMatch) => rx.ifMatch
        /\ ReceivedKey(cIfNoneMatch) => ~rx.ifMatch
        /\ ValidDate => op.ret.modified # httpMatchModified(OtherRx, op.arg.time)
        /\ ((\E k \in MatchKeys : ReceivedKey(k)) /\ op.arg.etag # Null)
              => op.ret.etag # httpMatchEtag(OtherRx, op.arg.etag)

\* the parts of C40 the parser does deliver: the date and the sense of the
\* Unmodified and None-Match directives
C40_NegativeDirectives ==
    Matched =>
        /\ (ReceivedKey(cIfUnmodifiedSince) /\ ValidDate) => (~rx.ifModified /\ rx.since > 0)
        /\ ReceivedKey(cIfNoneMatch) => (~rx.ifMatch /\ rx.etags # <<>>)
        /\ ReceivedKey(cIfRange) => rx.ifMatch

C40_Witness == Matched /\ ReceivedKey(cIfModifiedSince) /\ ValidDate /\ ~rx.ifModified

=============================================================================
